---------------------------- MODULE Spec2Model ----------------------------
(***************************************************************************)
(* A model of gpth-rs (crates/gpth-core): the pipeline driver              *)
(* process_with_control, the writer write_output with its worker threads,  *)
(* the checkpoint (save / load / is_compatible / CheckpointSaver) and the  *)
(* deduplicator.                                                           *)
(*                                                                         *)
(* Fault model.  The environment may: request cancellation at any time;    *)
(* fail the scan (archive open error); fail a write worker (archive open,  *)
(* entry read or output-file error); fail a checkpoint save at any of its  *)
(* I/O steps (temp-file create, buffered write, the final flush that       *)
(* BufWriter performs on drop, rename).  Removing the checkpoint file      *)
(* (Checkpoint::delete) is assumed to succeed when the file exists.        *)
(***************************************************************************)
EXTENDS Integers, Sequences, FiniteSets, TLC

(***************************************************************************)
(* Bounds of the model.                                                    *)
(***************************************************************************)
NumThreads == 2     \* rayon::current_num_threads() of the modelled host
MaxRuns    == 2     \* process_with_control invocations on one output directory
MaxMedia   == 2     \* media records that survive the dedup stage

(***************************************************************************)
(* Program constants.                                                      *)
(***************************************************************************)
CHECKPOINT_VERSION == 1
NoAccuracy         == 255     \* u8::MAX, the date_accuracy of an undated record

None == "None"

------------------------------------------------------------------------------
(***************************************************************************)
(* Generic helpers.                                                        *)
(***************************************************************************)
Range(s) == {s[i] : i \in DOMAIN s}

Min(a, b) == IF a <= b THEN a ELSE b

------------------------------------------------------------------------------
(***************************************************************************)
(* Paths and file names.                                                   *)
(*                                                                         *)
(* A file name is its stem followed by its extension.  The writer only     *)
(* ever derives new names by format!("{}({}).{}", stem, counter, ext), so  *)
(* a stem is modelled as a base string followed by a sequence of counters: *)
(* "IMG.jpg" is [b |-> "IMG", s |-> <<>>] and "IMG(1).jpg" is              *)
(* [b |-> "IMG", s |-> <<1>>], whether it was derived or is the name of an *)
(* archive entry.  The encoding is injective, as the strings are.          *)
(***************************************************************************)
FileName(base) == [b |-> base, s |-> << >>]

\* format!("{}({}).{}", stem, counter, ext)
Numbered(name, counter) == [b |-> name.b, s |-> Append(name.s, counter)]

\* sub_dir.join(name): a path relative to the output root
PathJoin(dir, name) == [dir |-> dir, name |-> name]

RootDir    == "."
UnknownDir == "date-unknown"

\* dt.format("%Y") / dt.format("%m"): a date is modelled by its "YYYY/MM"
DateDir(date) == date

------------------------------------------------------------------------------
(***************************************************************************)
(* writer.rs: destination assignment (phase 1 of write_output).            *)
(*                                                                         *)
(* A media record is [zip_path, zip_index, filename, size, date].          *)
(* already  : zip_path -> output path, the checkpoint's written map        *)
(* existing : path -> size, the pre-scanned output directory               *)
(***************************************************************************)

\* Checkpoint::get_written_map: written_files collected into a HashMap keyed
\* by zip_path; of several records with one key the last one stays.
LastIndexOf(written, zp) ==
    CHOOSE i \in DOMAIN written :
        /\ written[i].zip_path = zp
        /\ \A j \in DOMAIN written : written[j].zip_path = zp => j <= i

get_written_map(written) ==
    [zp \in {written[i].zip_path : i \in DOMAIN written} |->
        written[LastIndexOf(written, zp)].output_path]

\* a sub-directory that does not depend on the date
SubDirOfIgnoringDate(m, divide_to_dates) == RootDir

\* the sub-directory of a record (writer.rs 100-112)
SubDirOf(m, divide_to_dates) ==
    IF divide_to_dates
    THEN IF m.date # None THEN DateDir(m.date) ELSE UnknownDir
    ELSE RootDir

\* a counter that is read as 0 whatever was stored
CounterOfForgetting(counters, base_dest) == 0

\* name_counters.entry(base_dest).or_insert(0)
CounterOf(counters, base_dest) ==
    IF base_dest \in DOMAIN counters THEN counters[base_dest] ELSE 0

\* the loop of writer.rs 147-160: increments the counter until the candidate
\* is neither used in this run nor among the existing files; returns the
\* final counter value
RECURSIVE ProbeCounter(_, _, _, _, _)
ProbeCounter(counter, sub_dir, filename, used_paths, existing_files) ==
    LET next      == counter + 1
        candidate == PathJoin(sub_dir, Numbered(filename, next))
    IN  IF candidate \notin used_paths /\ candidate \notin DOMAIN existing_files
        THEN next
        ELSE ProbeCounter(next, sub_dir, filename, used_paths, existing_files)

\* one iteration of the loop of writer.rs 92-165 on record m at index idx
AssignOne(st, idx, m, already, existing_files, divide_to_dates) ==
    IF m.zip_path \in DOMAIN already
    THEN [st EXCEPT !.skip = @ \cup {idx},
                    !.assignments = Append(@, already[m.zip_path])]
    ELSE
      LET sub_dir       == SubDirOf(m, divide_to_dates)
          base_dest     == PathJoin(sub_dir, m.filename)
          counter       == CounterOf(st.counters, base_dest)
          can_use_base  == counter = 0 /\ base_dest \notin st.used
          has_existing  == base_dest \in DOMAIN existing_files
          existing_same == can_use_base /\ has_existing
                           /\ existing_files[base_dest] = m.size
          take_base     == existing_same \/ (can_use_base /\ ~has_existing)
          final         == IF take_base THEN counter
                           ELSE ProbeCounter(counter, sub_dir, m.filename,
                                             st.used, existing_files)
          dest          == IF take_base THEN base_dest
                           ELSE PathJoin(sub_dir, Numbered(m.filename, final))
      IN  [counters    |-> [p \in DOMAIN st.counters \cup {base_dest} |->
                               IF p = base_dest THEN final ELSE st.counters[p]],
           used        |-> st.used \cup {dest},
           dirs        |-> st.dirs \cup {sub_dir},
           created     |-> IF sub_dir \in st.dirs THEN st.created
                           ELSE Append(st.created, sub_dir),
           skip        |-> IF existing_same THEN st.skip \cup {idx} ELSE st.skip,
           assignments |-> Append(st.assignments, dest)]

RECURSIVE AssignFrom(_, _, _, _, _, _)
AssignFrom(st, idx, media, already, existing_files, divide_to_dates) ==
    IF idx > Len(media) THEN st
    ELSE AssignFrom(AssignOne(st, idx, media[idx], already, existing_files,
                              divide_to_dates),
                    idx + 1, media, already, existing_files, divide_to_dates)

\* writer.rs 80-90: which existing files the assignment consults
ExistingFiles(files, already, force) ==
    IF force THEN << >>
    ELSE IF DOMAIN already # {} THEN << >>
    ELSE [p \in DOMAIN files |-> files[p].size]

\* writer.rs 57-165: the whole of phase 1.  files is the output directory
\* (path -> [size, ...]), written the checkpoint's written_files.
AssignDestinations(media, written, files, divide_to_dates, force) ==
    LET already == get_written_map(written)
        init    == [counters    |-> << >>,
                    used        |-> {already[zp] : zp \in DOMAIN already},
                    dirs        |-> {},
                    created     |-> << >>,
                    skip        |-> {},
                    assignments |-> << >>]
    IN  AssignFrom(init, 1, media, already,
                   ExistingFiles(files, already, force), divide_to_dates)

------------------------------------------------------------------------------
(***************************************************************************)
(* checkpoint.rs: the checkpoint value, its options hash and its           *)
(* compatibility test.                                                     *)
(*                                                                         *)
(* Strings are sequences of characters.  SHA-256 is modelled as an         *)
(* injective function of the hashed byte sequence: the hash of a sequence  *)
(* is the sequence itself.                                                 *)
(***************************************************************************)
Sha256Hex(bytes) == bytes

Flag(b) == IF b THEN "1" ELSE "0"

\* compute_options_hash: the hasher is fed the fields one after another,
\* with nothing between them
compute_options_hash(options) ==
    Sha256Hex(<<Flag(options.divide_to_dates), Flag(options.skip_extras),
                Flag(options.no_guess), Flag(options.albums)>>
              \o options.album_dest
              \o <<Flag(options.album_link)>>
              \o options.output)

\* get_zip_mtimes: fs maps an archive path to its mtime in seconds, or to
\* NoMetadata when fs::metadata fails; the result is [ok, mtimes], an error
\* on the first failure
NoMetadata == -1

get_zip_mtimes(zip_files, fs) ==
    IF \E i \in DOMAIN zip_files : fs[zip_files[i]] = NoMetadata
    THEN [ok |-> FALSE, mtimes |-> << >>]
    ELSE [ok |-> TRUE, mtimes |-> [i \in DOMAIN zip_files |-> fs[zip_files[i]]]]

\* Checkpoint::new (the archives are readable)
\* Utc::now(): seconds and nanoseconds of the instant of creation
UtcNow == [secs |-> "t0", nanos |-> "n0"]

NewCheckpoint(options, fs) ==
    [version       |-> CHECKPOINT_VERSION,
     timestamp     |-> UtcNow,
     options_hash  |-> compute_options_hash(options),
     zip_files     |-> options.zip_files,
     zip_mtimes    |-> get_zip_mtimes(options.zip_files, fs).mtimes,
     written_files |-> << >>,
     last_stage    |-> "",
     completed     |-> FALSE]

\* is_compatible without the test of the completed flag
is_compatible_ignoring_completed(cp, options, fs) ==
    IF cp.version # CHECKPOINT_VERSION THEN "false"
    ELSE IF cp.options_hash # compute_options_hash(options) THEN "false"
    ELSE IF cp.zip_files # options.zip_files THEN "false"
    ELSE IF ~get_zip_mtimes(options.zip_files, fs).ok THEN "err"
    ELSE IF cp.zip_mtimes # get_zip_mtimes(options.zip_files, fs).mtimes THEN "false"
    ELSE "true"

\* Checkpoint::is_compatible: "true", "false", or "err" when the archives'
\* metadata cannot be read
is_compatible(cp, options, fs) ==
    IF cp.version # CHECKPOINT_VERSION THEN "false"
    ELSE IF cp.completed THEN "false"
    ELSE IF cp.options_hash # compute_options_hash(options) THEN "false"
    ELSE IF cp.zip_files # options.zip_files THEN "false"
    ELSE IF ~get_zip_mtimes(options.zip_files, fs).ok THEN "err"
    ELSE IF cp.zip_mtimes # get_zip_mtimes(options.zip_files, fs).mtimes THEN "false"
    ELSE "true"

\* Checkpoint::mark_written
cp_mark_written(cp, zip_path, output_path, size) ==
    [cp EXCEPT !.written_files =
        Append(@, [zip_path |-> zip_path, output_path |-> output_path,
                   size |-> size])]

\* Checkpoint::set_stage
cp_set_stage(cp, stage) == [cp EXCEPT !.last_stage = stage]

(***************************************************************************)
(* The output directory: media files, the checkpoint file and its          *)
(* temporary file.  A file of a checkpoint is [present, whole, doc]: doc   *)
(* is the JSON document in it, whole is FALSE for a strict prefix of a     *)
(* serialisation (an empty file too).                                      *)
(***************************************************************************)
NoCheckpoint ==
    [version |-> 0, timestamp |-> UtcNow, options_hash |-> << >>,
     zip_files |-> << >>,
     zip_mtimes |-> << >>, written_files |-> << >>, last_stage |-> "",
     completed |-> FALSE]

\* serde's Serialize / Deserialize of PathBuf: the path as a JSON string
\* (a path that is not UTF-8 is an error of the serialiser, which the
\* "write" fault of Save covers)
PathToJson(path) == [utf8 |-> path]

\* chrono's Serialize / Deserialize of DateTime<Utc>: an RFC 3339 string
\* with the fraction of the second to the nanosecond
DateTimeToJson(t) == [rfc3339 |-> <<t.secs, ".", t.nanos, "Z">>]

DateTimeFromJson(str) == [secs |-> str.rfc3339[1], nanos |-> str.rfc3339[3]]

PathFromJson(str) == str.utf8

\* #[derive(Serialize)] of WrittenFile: the fields in declaration order
written_file_to_json(wf) ==
    << <<"zip_path", wf.zip_path>>,
       <<"output_path", PathToJson(wf.output_path)>>,
       <<"size", wf.size>> >>

\* #[derive(Serialize)] of Checkpoint: the JSON object as the sequence of
\* its members, in declaration order
to_json(cp) ==
    << <<"version", cp.version>>,
       <<"timestamp", DateTimeToJson(cp.timestamp)>>,
       <<"options_hash", cp.options_hash>>,
       <<"zip_files", cp.zip_files>>,
       <<"zip_mtimes", cp.zip_mtimes>>,
       <<"written_files",
         [i \in DOMAIN cp.written_files |->
             written_file_to_json(cp.written_files[i])]>>,
       <<"last_stage", cp.last_stage>>,
       <<"completed", cp.completed>> >>

\* the members that the derived Deserialize requires
CheckpointKeys ==
    <<"version", "timestamp", "options_hash", "zip_files", "zip_mtimes",
      "written_files", "last_stage", "completed">>

\* the keys of a JSON object
KeysOf(obj) == [i \in DOMAIN obj |-> obj[i][1]]

\* the value of member key of a JSON object that has it
Member(obj, key) == obj[CHOOSE i \in DOMAIN obj : obj[i][1] = key][2]

\* #[derive(Deserialize)] of WrittenFile
written_file_from_json(obj) ==
    [zip_path    |-> Member(obj, "zip_path"),
     output_path |-> PathFromJson(Member(obj, "output_path")),
     size        |-> Member(obj, "size")]

\* serde_json::from_reader::<Checkpoint>: [ok, cp]; a document that lacks a
\* member (a prefix of a serialisation does) is an error
from_json(doc) ==
    IF \E k \in DOMAIN CheckpointKeys :
          CheckpointKeys[k] \notin Range(KeysOf(doc))
    THEN [ok |-> FALSE, cp |-> NoCheckpoint]
    ELSE [ok |-> TRUE,
          cp |-> [version       |-> Member(doc, "version"),
                  timestamp     |-> DateTimeFromJson(Member(doc, "timestamp")),
                  options_hash  |-> Member(doc, "options_hash"),
                  zip_files     |-> Member(doc, "zip_files"),
                  zip_mtimes    |-> Member(doc, "zip_mtimes"),
                  written_files |->
                      [i \in DOMAIN Member(doc, "written_files") |->
                          written_file_from_json(Member(doc, "written_files")[i])],
                  last_stage    |-> Member(doc, "last_stage"),
                  completed     |-> Member(doc, "completed")]]

Absent      == [present |-> FALSE, whole |-> FALSE, doc |-> << >>]
Whole(cp)   == [present |-> TRUE, whole |-> TRUE, doc |-> to_json(cp)]
Partial(cp) == [present |-> TRUE, whole |-> FALSE, doc |-> << >>]

\* Checkpoint::save, step by step
\* File::create(&temp_path): creates or truncates the temporary file
SaveCreate(d, cp) == [d EXCEPT !.tmp = Partial(cp)]

\* serde_json::to_writer_pretty into the BufWriter, every byte reaching the
\* file (the last ones when the BufWriter is dropped)
SaveWriteAll(d, cp) == [d EXCEPT !.tmp = Whole(cp)]

\* fs::rename(&temp_path, &path)
SaveRename(d) == [d EXCEPT !.ckpt = d.tmp, !.tmp = Absent]

\* Checkpoint::save under a fault of the environment; the value is
\* [disk, ok].
\*   "create": File::create fails                         -> Err
\*   "write" : a write of the serialiser fails            -> Err
\*   "flush" : the flush of the BufWriter's last bytes fails when it is
\*             dropped at the end of to_writer_pretty; Drop discards the
\*             error, to_writer_pretty has returned Ok, the rename runs
\*   "rename": fs::rename fails                           -> Err
SaveFaults == {"none", "create", "write", "flush", "rename"}

\* The faults that differ in what they leave in the checkpoint file: it is
\* unchanged, replaced by the new checkpoint, or replaced by a prefix of it
\* ("write" and "rename" leave it as "create" does).
PipelineFaults == SaveFaults \ {"write", "rename"}

Save(d, cp, fault) ==
    CASE fault = "create" -> [disk |-> d, ok |-> FALSE]
      [] fault = "write"  -> [disk |-> SaveCreate(d, cp), ok |-> FALSE]
      [] fault = "flush"  -> [disk |-> SaveRename(SaveCreate(d, cp)), ok |-> TRUE]
      [] fault = "rename" -> [disk |-> SaveWriteAll(SaveCreate(d, cp), cp),
                              ok |-> FALSE]
      [] OTHER            -> [disk |-> SaveRename(SaveWriteAll(SaveCreate(d, cp), cp)),
                              ok |-> TRUE]

\* Checkpoint::load: [ok, some, cp], that is Err, Ok(None) or Ok(Some(cp));
\* a file that is not a whole serialisation fails to parse
Load(d) ==
    IF ~d.ckpt.present THEN [ok |-> TRUE, some |-> FALSE, cp |-> NoCheckpoint]
    ELSE IF ~from_json(d.ckpt.doc).ok
         THEN [ok |-> FALSE, some |-> FALSE, cp |-> NoCheckpoint]
    ELSE [ok |-> TRUE, some |-> TRUE, cp |-> from_json(d.ckpt.doc).cp]

\* Checkpoint::delete
Delete(d) == [d EXCEPT !.ckpt = Absent]

(***************************************************************************)
(* CheckpointSaver                                                         *)
(***************************************************************************)
MIN_FILES == 100

\* CheckpointSaver::new / from_existing
NewSaver(cp) == [checkpoint |-> cp, files_since_save |-> 0]

\* CheckpointSaver::force_save: the result of save is discarded; ok is
\* that result, which the caller does not get
force_save(sv, d, fault) ==
    [saver |-> [sv EXCEPT !.files_since_save = 0],
     disk  |-> Save(d, sv.checkpoint, fault).disk,
     ok    |-> Save(d, sv.checkpoint, fault).ok]

\* CheckpointSaver::mark_written followed by maybe_save; interval_elapsed
\* is last_save.elapsed() >= min_interval
mark_written(sv, d, wf, interval_elapsed, fault) ==
    LET marked == [checkpoint |-> cp_mark_written(sv.checkpoint, wf.zip_path,
                                                  wf.output_path, wf.size),
                   files_since_save |-> sv.files_since_save + 1]
    IN  IF interval_elapsed \/ marked.files_since_save >= MIN_FILES
        THEN force_save(marked, d, fault)
        ELSE [saver |-> marked, disk |-> d, ok |-> TRUE]

\* CheckpointSaver::set_stage
set_stage(sv, stage) == [sv EXCEPT !.checkpoint = cp_set_stage(@, stage)]

\* a mark_completed that leaves the checkpoint file where it is
mark_completed_keeping_file(d) == d

\* CheckpointSaver::mark_completed
mark_completed(d) == Delete(d)

------------------------------------------------------------------------------
(***************************************************************************)
(* The pipeline: process_with_control and write_output on one output       *)
(* directory, run up to MaxRuns times.                                     *)
(***************************************************************************)
VARIABLES
    world,    \* the inputs: [media, files, ckpt]: the media records that the
              \* scan, date, album and dedup stages yield for the archives, and
              \* the output directory before the first run: its files and its
              \* checkpoint file
    disk,     \* the output directory: [files, ckpt, tmp]
    run,      \* the current invocation: [n, options, resume, pc, result, at]
    token,    \* the CancellationToken's cancelled flag
    saver,    \* the CheckpointSaver of the invocation
    wr,       \* write_output's locals
    hist,     \* what the properties observe: [last_op, extracted, loaded, prev]
    dedupSt,  \* a call of deduplicate: [pc, input, hashed, result]
    saveSt,   \* calls of Checkpoint::save, step by step, and of load:
              \* [pc, disk, cp, old, n, result, loaded]
    compatSt, \* a call of Checkpoint::is_compatible: [pc, saved, cp, options, fs, result]
    tokSt,  \* CancellationTokens, their clones and calls of check: [cells, handles, called, th]
    stageSt,  \* the worker stages of a run and cancel(): [pc, stage, cancelled, w, late, result, search]
    progSt,  \* ThrottledProgress and the threads that report: [now, last_emit, stage, kind, total, counter, th, delivered, suppressed]
    assignSt,  \* phase 1 of write_output, record by record: [pc, media, files, divide_to_dates, idx, st, probes, log]
    mergeSt,  \* the date passes and the album merge, alone
    yearSt,  \* is_year_folder, alone
    extractSt,  \* extract_date, alone
    thrSt,  \* the write stage's checkpoint throttle, alone
    writeSt   \* phases 2 and 3 of write_output, alone

vars == <<world, disk, run, token, saver, wr, hist, dedupSt, saveSt, compatSt, tokSt, stageSt, progSt, assignSt, mergeSt, yearSt, extractSt, thrSt, writeSt>>

\* the pipeline's variables, and those of the functions exercised on their own
pipeline == <<world, disk, run, token, saver, wr, hist>>
units    == <<dedupSt, saveSt, compatSt, tokSt, stageSt, progSt, assignSt, mergeSt, yearSt, extractSt, thrSt, writeSt>>

\* a unit that the specification at hand does not exercise
Idle == [pc |-> "idle"]

(***************************************************************************)
(* Inputs.  Two archives; three entries share the file name IMG.jpg, and   *)
(* the entries of the two archives' "Photos from 2022" folders share their *)
(* path inside the archive.  The date is what the date stages find.        *)
(***************************************************************************)
ZipFiles == <<"takeout-1.zip", "takeout-2.zip">>

ArchiveEntries ==
    << [zip_path |-> "Takeout/Google Photos/Photos from 2022/IMG.jpg",
        zip_index |-> 0, filename |-> FileName("IMG"), size |-> 1,
        date |-> "2022/01"],
       [zip_path |-> "Takeout/Google Photos/Photos from 2023/IMG.jpg",
        zip_index |-> 0, filename |-> FileName("IMG"), size |-> 2,
        date |-> None],
       [zip_path |-> "Takeout/Google Photos/Photos from 2022/IMG.jpg",
        zip_index |-> 1, filename |-> FileName("IMG"), size |-> 2,
        date |-> "2022/01"] >>

\* the subsequences of s
RECURSIVE SubSeqs(_)
SubSeqs(s) ==
    IF s = << >> THEN {<< >>}
    ELSE LET rest == SubSeqs(Tail(s))
         IN  rest \cup {<<Head(s)>> \o t : t \in rest}

\* a file of the output directory that no run of the program wrote
Foreign(size) == [size |-> size, src |-> <<"foreign">>, whole |-> TRUE]

InitialFiles ==
    {<< >>, [p \in {PathJoin(RootDir, FileName("IMG"))} |-> Foreign(2)]}

Options(divide_to_dates, force) ==
    [zip_files       |-> ZipFiles,
     output          |-> <<"o", "u", "t">>,
     divide_to_dates |-> divide_to_dates,
     skip_extras     |-> FALSE,
     no_guess        |-> FALSE,
     albums          |-> FALSE,
     album_dest      |-> <<"y", "e", "a", "r">>,
     album_link      |-> FALSE,
     force           |-> force]

\* the archives are not modified between the runs
ArchiveFs == [z \in Range(ZipFiles) \cup {"takeout-0.zip"} |-> 7]

\* the checkpoint that a cancelled run on another archive, with the same
\* options and output directory, left behind
StaleCheckpoint ==
    [NewCheckpoint([Options(FALSE, FALSE) EXCEPT !.zip_files = <<"takeout-0.zip">>],
                   ArchiveFs)
     EXCEPT !.last_stage = "write",
            !.written_files =
                <<[zip_path |-> "Takeout/Google Photos/Photos from 2021/OLD.jpg",
                   output_path |-> PathJoin(RootDir, FileName("OLD")),
                   size |-> 3]>>]

NoWrite ==
    [assignments |-> << >>, skip |-> {}, todo |-> {}, workers |-> << >>,
     written_files |-> << >>, cancelled |-> FALSE, marked |-> 0]

NoLoad == [resumed |-> FALSE, written |-> << >>]

FreshRun(n, divide_to_dates, force, resume) ==
    [n |-> n, options |-> Options(divide_to_dates, force), resume |-> resume,
     pc |-> "start", result |-> "none", at |-> ""]

Init ==
    /\ world \in [media : {m \in SubSeqs(ArchiveEntries) : Len(m) <= MaxMedia},
                  files : InitialFiles,
                  ckpt  : {Absent, Whole(StaleCheckpoint)}]
    /\ disk = [files |-> world.files, ckpt |-> world.ckpt, tmp |-> Absent]
    /\ run \in {FreshRun(1, d, FALSE, FALSE) : d \in BOOLEAN}
    /\ token = FALSE
    /\ saver = NewSaver(NoCheckpoint)
    /\ wr = NoWrite
    /\ hist = [last_op |-> "", extracted |-> {}, loaded |-> NoLoad, prev |-> << >>,
               save_failed |-> FALSE, found |-> Absent]
    /\ dedupSt = Idle /\ saveSt = Idle /\ compatSt = Idle /\ tokSt = Idle /\ stageSt = Idle /\ progSt = Idle /\ assignSt = Idle /\ mergeSt = Idle /\ yearSt = Idle /\ extractSt = Idle /\ thrSt = Idle /\ writeSt = Idle

Return(result, at) ==
    run' = [run EXCEPT !.pc = "done", !.result = result, !.at = at]

Goto(pc) == run' = [run EXCEPT !.pc = pc]

LastOp(op) == hist' = [hist EXCEPT !.last_op = op]

\* the last operation was one that may save; save_failed: a save of this
\* invocation has returned Err
LastSave(op, ok) ==
    hist' = [hist EXCEPT !.last_op = op, !.save_failed = @ \/ ~ok]

(***************************************************************************)
(* lib.rs 138-166: the entry check, then the checkpoint is loaded or       *)
(* created and the stage set to "scan".                                    *)
(***************************************************************************)
\* a start that resumes from whatever checkpoint it finds
LoadOrCreateTrusting(d, options, resume) ==
    LET fresh  == [ok |-> TRUE, resumed |-> FALSE,
                   cp |-> NewCheckpoint(options, ArchiveFs)]
        loaded == Load(d)
        failed == [ok |-> FALSE, resumed |-> FALSE, cp |-> NoCheckpoint]
    IN  IF ~resume THEN fresh
        ELSE IF ~loaded.ok THEN failed
        ELSE IF ~loaded.some THEN fresh
        ELSE [ok |-> TRUE, resumed |-> TRUE, cp |-> loaded.cp]

\* lib.rs 144-162: [ok, resumed, cp]
LoadOrCreate(d, options, resume) ==
    LET fresh  == [ok |-> TRUE, resumed |-> FALSE,
                   cp |-> NewCheckpoint(options, ArchiveFs)]
        loaded == Load(d)
        failed == [ok |-> FALSE, resumed |-> FALSE, cp |-> NoCheckpoint]
    IN  IF ~resume THEN fresh
        ELSE IF ~loaded.ok THEN failed
        ELSE IF ~loaded.some THEN fresh
        ELSE CASE is_compatible(loaded.cp, options, ArchiveFs) = "true" ->
                     [ok |-> TRUE, resumed |-> TRUE, cp |-> loaded.cp]
               [] is_compatible(loaded.cp, options, ArchiveFs) = "err" -> failed
               [] OTHER -> fresh

Start ==
    /\ run.pc = "start"
    /\ IF token
       THEN /\ Return("Cancelled", "entry")
            /\ UNCHANGED <<saver, hist>>
       ELSE LET got == LoadOrCreate(disk, run.options, run.resume)
            IN  IF ~got.ok
                THEN /\ Return("Err", "load")
                     /\ UNCHANGED <<saver, hist>>
                ELSE /\ saver' = set_stage(NewSaver(got.cp), "scan")
                     /\ hist' = [hist EXCEPT
                            !.last_op = "set_stage",
                            !.loaded = [resumed |-> got.resumed,
                                        written |-> got.cp.written_files],
                            !.found = disk.ckpt]
                     /\ Goto("scan")
    /\ UNCHANGED <<units, world, disk, token, wr>>

(***************************************************************************)
(* A CancelledError return of the driver after a failed check of the token *)
(* (lib.rs 186-194, 302-310, 458-466, 479-487): force_save, then return.   *)
(***************************************************************************)
\* a CancelledError return that saves nothing
CancelledReturnWithoutSave(at) ==
    /\ LastOp("check")
    /\ Return("Cancelled", at)
    /\ UNCHANGED <<saver, disk>>

CancelledReturn(at) ==
    \E fault \in PipelineFaults :
        LET r == force_save(saver, disk, fault)
        IN  /\ saver' = r.saver
            /\ disk' = r.disk
            /\ LastSave("force_save", r.ok)
            /\ Return("Cancelled", at)

\* lib.rs 172-184 and 524-535: mark_completed, then Ok
CompletedReturn(at) ==
    /\ disk' = mark_completed(disk)
    /\ LastOp("mark_completed")
    /\ Return("Ok", at)
    /\ UNCHANGED saver

(***************************************************************************)
(* lib.rs 168-201: the scan, the early return on no media, the check.      *)
(***************************************************************************)
Scan ==
    /\ run.pc = "scan"
    /\ \/ \* scan_zips fails: an archive cannot be opened or read
          /\ Return("Err", "scan")
          /\ UNCHANGED <<disk, saver, hist>>
       \/ /\ world.media = << >>
          /\ CompletedReturn("scan")
       \/ /\ world.media # << >>
          /\ IF token
             THEN CancelledReturn("scan")
             ELSE /\ saver' = set_stage(saver, "date")
                  /\ LastOp("set_stage")
                  /\ Goto("dates")
                  /\ UNCHANGED disk
    /\ UNCHANGED <<units, world, token, wr>>

\* lib.rs 203-310: the date stages, then the check
Dates ==
    /\ run.pc = "dates"
    /\ IF token
       THEN CancelledReturn("dates")
       ELSE /\ Goto("merge")
            /\ UNCHANGED <<disk, saver, hist>>
    /\ UNCHANGED <<units, world, token, wr>>

\* lib.rs 312-470: the album merge and the album records' dates, the check
Merge ==
    /\ run.pc = "merge"
    /\ IF token
       THEN CancelledReturn("merge")
       ELSE /\ saver' = set_stage(saver, "dedup")
            /\ LastOp("set_stage")
            /\ Goto("dedup")
            /\ UNCHANGED disk
    /\ UNCHANGED <<units, world, token, wr>>

\* lib.rs 472-491: dedup, then the check
Dedup ==
    /\ run.pc = "dedup"
    /\ IF token
       THEN CancelledReturn("dedup")
       ELSE /\ saver' = set_stage(saver, "write")
            /\ LastOp("set_stage")
            /\ Goto("assign")
            /\ UNCHANGED disk
    /\ UNCHANGED <<units, world, token, wr>>

------------------------------------------------------------------------------
(***************************************************************************)
(* write_output, phase 2: the work list is grouped by archive, the groups  *)
(* are taken one after another (in the order of a HashMap), each group's   *)
(* entries are cut into chunks and every chunk is given to a thread of a   *)
(* scope.                                                                  *)
(***************************************************************************)
Indices(media) == [i \in 1..Len(media) |-> i]

\* by_zip[z]: the indices of the records of archive z that are not skipped
WorkOf(media, skip, z) ==
    SelectSeq(Indices(media),
              LAMBDA i : media[i].zip_index = z /\ i \notin skip)

\* chunks that overlap: every thread but the first starts at the last entry
\* of the thread before it
ChunksOfOverlapping(entries) ==
    LET n          == Len(entries)
        chunk_size == (n + NumThreads - 1) \div NumThreads
        count      == (n + chunk_size - 1) \div chunk_size
    IN  [k \in 1..count |->
            SubSeq(entries, IF k = 1 THEN 1 ELSE (k - 1) * chunk_size,
                   Min(k * chunk_size, n))]

\* entries.chunks((entries.len() + num_threads - 1) / num_threads)
ChunksOf(entries) ==
    LET n          == Len(entries)
        chunk_size == (n + NumThreads - 1) \div NumThreads
        count      == (n + chunk_size - 1) \div chunk_size
    IN  [k \in 1..count |->
            SubSeq(entries, (k - 1) * chunk_size + 1, Min(k * chunk_size, n))]

\* a spawned thread: its chunk, the position of its next entry, its state
Worker(chunk) == [chunk |-> chunk, pos |-> 1, st |-> "open"]

Media == world.media

\* writer.rs 53-189: phase 1 and the grouping of the work
Assign ==
    /\ run.pc = "assign"
    /\ LET a == AssignDestinations(Media, saver.checkpoint.written_files,
                                   disk.files, run.options.divide_to_dates,
                                   run.options.force)
       IN  wr' = [assignments   |-> a.assignments,
                  skip          |-> a.skip,
                  todo          |-> {Media[i].zip_index :
                                        i \in (1..Len(Media)) \ a.skip},
                  workers       |-> << >>,
                  written_files |-> << >>,
                  cancelled     |-> FALSE,
                  marked        |-> 0]
    /\ Goto("group")
    /\ UNCHANGED <<units, world, disk, token, saver, hist>>

\* writer.rs 191-251: the next archive: the check, then the threads
Group ==
    /\ run.pc = "group"
    /\ IF wr.todo = {}
       THEN /\ Goto("mark")
            /\ UNCHANGED wr
       ELSE IF token
       THEN /\ wr' = [wr EXCEPT !.cancelled = TRUE]
            /\ Goto("mark")
       ELSE \E z \in wr.todo :
            /\ wr' = [wr EXCEPT
                   !.todo = @ \ {z},
                   !.workers = [k \in DOMAIN ChunksOf(WorkOf(Media, wr.skip, z)) |->
                                   Worker(ChunksOf(WorkOf(Media, wr.skip, z))[k])]]
            /\ Goto("join")
    /\ UNCHANGED <<units, world, disk, token, saver, hist>>

\* the file that a completed copy of record i leaves at its destination
Copied(i) == [size |-> Media[i].size,
              src |-> <<Media[i].zip_index, Media[i].zip_path>>,
              whole |-> TRUE]

\* the file that a failed copy leaves: created, not all bytes written
Truncated(i) == [size |-> 0,
                 src |-> <<Media[i].zip_index, Media[i].zip_path>>,
                 whole |-> FALSE]

PutFile(files, path, file) ==
    [p \in DOMAIN files \cup {path} |-> IF p = path THEN file ELSE files[p]]

\* writer.rs 215-216: the thread opens the archive
WorkerOpen(w) ==
    /\ run.pc = "join"
    /\ w \in DOMAIN wr.workers
    /\ wr.workers[w].st = "open"
    /\ \/ wr' = [wr EXCEPT !.workers[w].st = "check"]
       \/ wr' = [wr EXCEPT !.workers[w].st = "err"]
    /\ UNCHANGED <<units, world, disk, run, token, saver, hist>>

\* writer.rs 218-225: the check before an entry
WorkerCheck(w) ==
    /\ run.pc = "join"
    /\ w \in DOMAIN wr.workers
    /\ wr.workers[w].st = "check"
    /\ IF token
       THEN wr' = [wr EXCEPT !.cancelled = TRUE, !.workers[w].st = "done"]
       ELSE wr' = [wr EXCEPT !.workers[w].st = "copy"]
    /\ UNCHANGED <<units, world, disk, run, token, saver, hist>>

\* the state of a thread after its entry at pos
Advance(worker) ==
    IF worker.pos = Len(worker.chunk)
    THEN [worker EXCEPT !.st = "done"]
    ELSE [worker EXCEPT !.pos = @ + 1, !.st = "check"]

\* writer.rs 227-246: the entry is opened, the output file created, the
\* bytes copied, the written file pushed to the collector
WorkerCopy(w) ==
    /\ run.pc = "join"
    /\ w \in DOMAIN wr.workers
    /\ wr.workers[w].st = "copy"
    /\ LET i    == wr.workers[w].chunk[wr.workers[w].pos]
           dest == wr.assignments[i]
       IN  \/ \* archive.by_index or File::create fails
              /\ wr' = [wr EXCEPT !.workers[w].st = "entry_err"]
              /\ UNCHANGED <<disk, hist>>
           \/ \* io::copy fails
              /\ wr' = [wr EXCEPT !.workers[w].st = "entry_err"]
              /\ disk' = [disk EXCEPT !.files = PutFile(@, dest, Truncated(i))]
              /\ UNCHANGED hist
           \/ /\ wr' = [wr EXCEPT
                     !.workers[w] = Advance(@),
                     !.written_files =
                         Append(@, [zip_path |-> Media[i].zip_path,
                                    output_path |-> dest,
                                    size |-> Media[i].size])]
              /\ disk' = [disk EXCEPT !.files = PutFile(@, dest, Copied(i))]
              /\ hist' = [hist EXCEPT !.extracted = @ \cup {i}]
    /\ UNCHANGED <<units, world, run, token, saver>>

\* writer.rs 253-257: the scope ends when every thread has ended; the error
\* of a thread is returned at once, by write_output and by the driver
JoinScope ==
    /\ run.pc = "join"
    /\ \A w \in DOMAIN wr.workers :
          wr.workers[w].st \in {"done", "err", "entry_err"}
    /\ IF \E w \in DOMAIN wr.workers : wr.workers[w].st \in {"err", "entry_err"}
       THEN Return("Err", "write")
       ELSE Goto("group")
    /\ UNCHANGED <<units, world, disk, token, saver, wr, hist>>

\* writer.rs 262-265: one iteration of the loop over the collector
MarkWritten ==
    /\ run.pc = "mark"
    /\ wr.marked < Len(wr.written_files)
    /\ \E interval_elapsed \in BOOLEAN, fault \in PipelineFaults :
          LET r == mark_written(saver, disk, wr.written_files[wr.marked + 1],
                                interval_elapsed, fault)
          IN  /\ saver' = r.saver
              /\ disk' = r.disk
              /\ LastSave("mark_written", r.ok)
    /\ wr' = [wr EXCEPT !.marked = @ + 1]
    /\ UNCHANGED <<units, world, run, token>>

\* writer.rs 266-282 and lib.rs 511-535: the cancelled return of
\* write_output; or its Ok, after which the driver completes
WriteDone ==
    /\ run.pc = "mark"
    /\ wr.marked = Len(wr.written_files)
    /\ IF wr.cancelled
       THEN CancelledReturn("write")
       ELSE CompletedReturn("end")
    /\ UNCHANGED <<units, world, token, wr>>

(***************************************************************************)
(* The environment: a cancel request, and the next invocation on the same  *)
(* output directory (a new process, a new token).                          *)
(***************************************************************************)
Cancel ==
    /\ run.pc # "done"
    /\ ~token
    /\ token' = TRUE
    /\ UNCHANGED <<units, world, disk, run, saver, wr, hist>>

\* what a later run's properties need of an earlier run
Summary ==
    [cancelled_in_write |-> run.result = "Cancelled" /\ run.at = "write",
     options |-> run.options]

NextRun ==
    /\ run.pc = "done"
    /\ run.n < MaxRuns
    /\ \E d \in BOOLEAN, f \in BOOLEAN, r \in BOOLEAN :
          run' = FreshRun(run.n + 1, d, f, r)
    /\ token' = FALSE
    /\ saver' = NewSaver(NoCheckpoint)
    /\ wr' = NoWrite
    /\ hist' = [last_op |-> "", extracted |-> {}, loaded |-> NoLoad,
                prev |-> Append(hist.prev, Summary), save_failed |-> FALSE,
                found |-> Absent]
    /\ UNCHANGED <<units, world, disk>>

Next ==
    \/ Start \/ Scan \/ Dates \/ Merge \/ Dedup
    \/ Assign \/ Group
    \/ \E w \in 1..NumThreads : WorkerOpen(w) \/ WorkerCheck(w) \/ WorkerCopy(w)
    \/ JoinScope \/ MarkWritten \/ WriteDone
    \/ Cancel \/ NextRun

Spec == Init /\ [][Next]_vars

------------------------------------------------------------------------------
(***************************************************************************)
(* Properties of the pipeline.                                             *)
(***************************************************************************)

\* write_output has assigned the destinations of this run
Assigned == run.pc \in {"group", "join", "mark", "done"} /\ Len(wr.assignments) = Len(Media)

\* the archive paths that the checkpoint loaded by this run records
Recorded == {hist.loaded.written[k].zip_path : k \in DOMAIN hist.loaded.written}

\* C1: after destination assignment no two media records are assigned the
\* same path, on fresh runs and on runs that reuse the assignments of a
\* checkpoint.  (Every assigned path is a PathJoin below the output root.)
C1_AssignmentsUnique ==
    Assigned =>
        \A i, j \in DOMAIN wr.assignments :
            i # j => wr.assignments[i] # wr.assignments[j]

\* C2: on a run resumed from a compatible checkpoint that records N > 0
\* files, a media record is extracted iff its archive path is not recorded,
\* so that a run which ends Ok made exactly total - N extractions.
C2_ResumeExtractsUnrecorded ==
    (/\ run.result = "Ok" /\ run.at = "end"
     /\ hist.loaded.resumed /\ Len(hist.loaded.written) > 0) =>
        /\ hist.extracted =
               {i \in DOMAIN Media : Media[i].zip_path \notin Recorded}
        /\ Cardinality(hist.extracted) = Len(Media) - Len(hist.loaded.written)

\* the output directory after one uninterrupted run on the initial directory
UninterruptedTree(files, media, options) ==
    LET a == AssignDestinations(media, << >>, files, options.divide_to_dates,
                                options.force)
        written == (DOMAIN media) \ a.skip
    IN  [p \in DOMAIN files \cup {a.assignments[i] : i \in written} |->
            IF \E i \in written : a.assignments[i] = p
            THEN LET i == CHOOSE i \in written : a.assignments[i] = p
                 IN  [size |-> media[i].size,
                      src |-> <<media[i].zip_index, media[i].zip_path>>,
                      whole |-> TRUE]
            ELSE files[p]]

\* the second run resumed, with the same options, a first run that was
\* cancelled in the write stage after it had written files, and ended Ok
ResumedAfterCancel ==
    /\ run.n = 2 /\ run.result = "Ok" /\ run.at = "end"
    /\ hist.loaded.resumed /\ Len(hist.loaded.written) > 0
    /\ hist.prev[1].cancelled_in_write
    /\ hist.prev[1].options = run.options

\* C3: a run cancelled after some files were written and then resumed on the
\* same archives and options leaves the output paths, and the media stored
\* at each, of one uninterrupted run on the same initial output directory.
C3_ResumeEqualsUninterrupted ==
    ResumedAfterCancel =>
        disk.files = UninterruptedTree(world.files, Media, run.options)

\* every file extracted in this run is a record of checkpoint cp
RecordsExtracted(cp) ==
    \A i \in hist.extracted :
        \E k \in DOMAIN cp.written_files :
            /\ cp.written_files[k].zip_path = Media[i].zip_path
            /\ cp.written_files[k].output_path = wr.assignments[i]

\* C5: when write_output returns CancelledError, every file whose copy
\* completed is recorded in the checkpoint and that checkpoint is the
\* content of the checkpoint file.
C5_CancelInWriteSaved ==
    (run.result = "Cancelled" /\ run.at = "write") =>
        /\ RecordsExtracted(saver.checkpoint)
        /\ disk.ckpt = Whole(saver.checkpoint)

C7_FailureSavesCheckpoint ==
    run.result = "Err" =>
        /\ hist.last_op = "force_save"
        /\ disk.ckpt.present /\ disk.ckpt.whole
        /\ RecordsExtracted(Load(disk).cp)

\* C18: a failure on one entry in a write worker (the entry cannot be
\* opened or read, its output file cannot be created or written) does not
\* abort the run: with no failure to open an archive, the run does not
\* return an error.
C18_EntryFailureDoesNotAbort ==
    (/\ \E w \in DOMAIN wr.workers : wr.workers[w].st = "entry_err"
     /\ \A w \in DOMAIN wr.workers : wr.workers[w].st # "err")
        => run.result # "Err"

\* C19: a checkpoint save that fails is fatal: once a save of the run has
\* returned an error, the run has ended with an error.
C19_FailedSaveIsFatal ==
    hist.save_failed => run.pc = "done" /\ run.result = "Err"

------------------------------------------------------------------------------
(***************************************************************************)
(* dedup.rs: deduplicate.                                                  *)
(*                                                                         *)
(* A record is [id, size, content, filename, date_accuracy, hash, albums]:  *)
(* albums are the names of the albums that the album merge gave it, id is  *)
(* its position in the input (what tells two records apart that agree in   *)
(* every other field), content the bytes of its archive entry, filename a  *)
(* sequence of characters, hash [some, hex].  Positions start at 1.        *)
(***************************************************************************)
MaxDedup == 3     \* records given to deduplicate

\* the pipeline's variables when a function is exercised on its own
PipelineUnused ==
    /\ world = [media |-> << >>, files |-> << >>, ckpt |-> Absent]
    /\ disk = [files |-> << >>, ckpt |-> Absent, tmp |-> Absent]
    /\ run = [FreshRun(1, FALSE, FALSE, FALSE) EXCEPT !.pc = "unused"]
    /\ token = FALSE
    /\ saver = NewSaver(NoCheckpoint)
    /\ wr = NoWrite
    /\ hist = [last_op |-> "", extracted |-> {}, loaded |-> NoLoad, prev |-> << >>,
               save_failed |-> FALSE, found |-> Absent]

NoHash == [some |-> FALSE, hex |-> << >>]

SomeHash(hex) == [some |-> TRUE, hex |-> hex]

\* the entries given to deduplicate: two contents of one size and one of
\* another; "A.j" and "A(1).j"; dated by JSON, dated by file name, undated;
\* a member of no album or of the album "Trip"
DedupEntries ==
    [content       : {<<"x">>, <<"y">>, <<"x", "x">>},
     filename      : {<<"A", ".", "j">>, <<"A", "(", "1", ")", ".", "j">>},
     date_accuracy : {0, 2, NoAccuracy},
     albums        : {<< >>, <<"Trip">>}]

DedupMedia(entries) ==
    [i \in DOMAIN entries |->
        [id            |-> i,
         size          |-> Len(entries[i].content),
         content       |-> entries[i].content,
         filename      |-> entries[i].filename,
         date_accuracy |-> entries[i].date_accuracy,
         albums        |-> entries[i].albums,
         hash          |-> NoHash]]

\* dedup.rs 40-52: the records that share their size with another record
needs_hash(media) ==
    {i \in DOMAIN media :
        \E j \in DOMAIN media : j # i /\ media[j].size = media[i].size}

\* dedup.rs 54-137: the workers hash the entries of needs_hash; the entries
\* in unread could not be opened or read and keep no hash
WithHashes(media, unread) ==
    [i \in DOMAIN media |->
        IF i \in needs_hash(media) \ unread
        THEN [media[i] EXCEPT !.hash = SomeHash(Sha256Hex(media[i].content))]
        ELSE media[i]]

\* groups by size alone, of hashed and unhashed records
hash_group_by_size(media, i) ==
    SelectSeq(Indices(media), LAMBDA j : media[j].size = media[i].size)

\* dedup.rs 140-148: the positions of the hashed records with the size and
\* hash of record i, in the order of the media vector
hash_group(media, i) ==
    SelectSeq(Indices(media),
              LAMBDA j : /\ media[j].hash.some
                         /\ media[j].size = media[i].size
                         /\ media[j].hash = media[i].hash)

\* the order of dedup.rs 156-161 by filename length alone
PrecedesByNameOnly(media, a, b) ==
    Len(media[a].filename) < Len(media[b].filename)

\* dedup.rs 156-161: the comparison is Less
Precedes(media, a, b) ==
    \/ media[a].date_accuracy < media[b].date_accuracy
    \/ /\ media[a].date_accuracy = media[b].date_accuracy
       /\ Len(media[a].filename) < Len(media[b].filename)

\* sort_by is a stable sort: x goes before the first element that it precedes
RECURSIVE InsertSorted(_, _, _)
InsertSorted(media, sorted, x) ==
    IF sorted = << >> THEN <<x>>
    ELSE IF Precedes(media, x, Head(sorted)) THEN <<x>> \o sorted
    ELSE <<Head(sorted)>> \o InsertSorted(media, Tail(sorted), x)

RECURSIVE SortBy(_, _)
SortBy(media, indices) ==
    IF indices = << >> THEN << >>
    ELSE InsertSorted(media,
                      SortBy(media, SubSeq(indices, 1, Len(indices) - 1)),
                      indices[Len(indices)])

\* dedup.rs 150-166: of every group of two or more, all but the first of the
\* sorted group; sorted and without repetitions, that is a set
remove_indices(media) ==
    UNION {Range(Tail(SortBy(media, hash_group(media, i)))) :
              i \in {j \in DOMAIN media : media[j].hash.some}}

\* Vec::swap_remove: the last element takes the place of the removed one
swap_remove(v, idx) ==
    [i \in 1..(Len(v) - 1) |-> IF i = idx THEN v[Len(v)] ELSE v[i]]

Max(S) == CHOOSE x \in S : \A y \in S : y <= x

\* dedup.rs 167-169: the positions are removed from the highest down
RECURSIVE SwapRemoveAll(_, _)
SwapRemoveAll(media, remove) ==
    IF remove = {} THEN media
    ELSE SwapRemoveAll(swap_remove(media, Max(remove)), remove \ {Max(remove)})

\* dedup.rs 129-131: the warning of the skipped entries
SkippedWarnings(skipped_count) ==
    IF skipped_count > 0
    THEN <<[text |-> "Skipped files during dedup hashing",
            count |-> skipped_count]>>
    ELSE << >>

\* deduplicate: [media, skipped, warnings]; skipped is skipped_count
deduplicate(media, unread) ==
    LET hashed == WithHashes(media, unread)
        skipped_count == Cardinality(needs_hash(media) \cap unread)
    IN  [media    |-> SwapRemoveAll(hashed, remove_indices(hashed)),
         skipped  |-> skipped_count,
         warnings |-> SkippedWarnings(skipped_count)]

InitDedup ==
    /\ PipelineUnused
    /\ saveSt = Idle /\ compatSt = Idle /\ tokSt = Idle /\ stageSt = Idle /\ progSt = Idle /\ assignSt = Idle /\ mergeSt = Idle /\ yearSt = Idle /\ extractSt = Idle /\ thrSt = Idle /\ writeSt = Idle
    /\ \E n \in 0..MaxDedup :
          dedupSt \in {[pc |-> "call", input |-> DedupMedia(e),
                        hashed |-> DedupMedia(e),
                        result |-> [media |-> << >>, skipped |-> 0,
                                    warnings |-> << >>]] :
                          e \in [1..n -> DedupEntries]}

Deduplicate ==
    /\ dedupSt.pc = "call"
    /\ \E unread \in SUBSET needs_hash(dedupSt.input) :
          dedupSt' = [dedupSt EXCEPT
                         !.pc = "done",
                         !.hashed = WithHashes(dedupSt.input, unread),
                         !.result = deduplicate(dedupSt.input, unread)]
    /\ UNCHANGED <<pipeline, saveSt, compatSt, tokSt, stageSt, progSt, assignSt, mergeSt, yearSt, extractSt, thrSt, writeSt>>

NextDedup == Deduplicate

SpecDedup == InitDedup /\ [][NextDedup]_vars

\* the positions of the input records that were hashed
Hashed == {i \in DOMAIN dedupSt.hashed : dedupSt.hashed[i].hash.some}

\* the (size, hash) group of the hashed input record i
GroupOf(i) ==
    {j \in Hashed : /\ dedupSt.input[j].size = dedupSt.input[i].size
                    /\ dedupSt.input[j].content = dedupSt.input[i].content}

\* how often the input record i is in the result
Remains(i) ==
    Cardinality({k \in DOMAIN dedupSt.result.media :
                    dedupSt.result.media[k].id = i})

\* (date_accuracy, filename length) of i is at most that of j
KeyAtMost(i, j) ==
    LET a == dedupSt.input[i]
        b == dedupSt.input[j]
    IN  \/ a.date_accuracy < b.date_accuracy
        \/ /\ a.date_accuracy = b.date_accuracy
           /\ Len(a.filename) <= Len(b.filename)

\* C4: after deduplicate, of every (size, hash) group of hashed input
\* records exactly one record remains, once, and it has the least
\* (date_accuracy, filename length) of its group.
C4_OneBestPerGroup ==
    dedupSt.pc = "done" =>
        \A i \in Hashed :
            \E k \in GroupOf(i) :
                /\ Remains(k) = 1
                /\ \A j \in GroupOf(i) \ {k} : Remains(j) = 0
                /\ \A j \in GroupOf(i) : KeyAtMost(k, j)

\* C4: a JSON-dated copy with the longer name was kept over a copy dated by
\* its filename that comes before it in the input
C4_Witness ==
    /\ dedupSt.pc = "done"
    /\ \E i \in Hashed : \E k \in GroupOf(i) :
          /\ i < k
          /\ dedupSt.input[k].date_accuracy = 0
          /\ dedupSt.input[i].date_accuracy = 2
          /\ Len(dedupSt.input[k].filename) > Len(dedupSt.input[i].filename)
          /\ Remains(k) = 1 /\ Remains(i) = 0

------------------------------------------------------------------------------
(***************************************************************************)
(* checkpoint.rs: Checkpoint::save, one I/O operation at a time, on an     *)
(* output directory [files, ckpt, tmp].  The process may stop between any  *)
(* two operations; a later process saves again.                            *)
(***************************************************************************)
MaxSaves == 2     \* calls of Checkpoint::save on one output directory

SavedRecord(base) ==
    [zip_path    |-> "Takeout/Google Photos/Photos from 2022/IMG.jpg",
     output_path |-> PathJoin(RootDir, FileName(base)),
     size        |-> 1]

\* the checkpoints that are saved
SaveCheckpoints ==
    {[NewCheckpoint(Options(FALSE, FALSE), ArchiveFs)
         EXCEPT !.last_stage = "write", !.written_files = w] :
            w \in {<< >>, <<SavedRecord("IMG")>>,
                   <<SavedRecord("IMG"), SavedRecord("MOV")>>,
                   <<SavedRecord("MOV"), SavedRecord("IMG")>>}}
    \cup {[NewCheckpoint(Options(TRUE, FALSE), ArchiveFs)
              EXCEPT !.last_stage = "scan", !.completed = TRUE,
                     !.timestamp = [secs |-> "t1", nanos |-> "n1"]]}

\* no load since the last call of save
NotLoaded == [done |-> FALSE, ok |-> TRUE, some |-> FALSE, cp |-> NoCheckpoint]

InitSave ==
    /\ PipelineUnused
    /\ dedupSt = Idle /\ compatSt = Idle /\ tokSt = Idle /\ stageSt = Idle /\ progSt = Idle /\ assignSt = Idle /\ mergeSt = Idle /\ yearSt = Idle /\ extractSt = Idle /\ thrSt = Idle /\ writeSt = Idle
    /\ \E ckpt \in {Absent} \cup {Whole(c) : c \in SaveCheckpoints},
          tmp \in {Absent, Partial(NoCheckpoint)} :
          saveSt = [pc |-> "idle",
                    disk |-> [files |-> << >>, ckpt |-> ckpt, tmp |-> tmp],
                    cp |-> NoCheckpoint, old |-> ckpt, n |-> 0,
                    result |-> "none", loaded |-> NotLoaded]

SaveReturn(result) == [saveSt EXCEPT !.pc = "idle", !.result = result]

\* checkpoint.rs 75-77: save is called
SaveCall ==
    /\ saveSt.pc = "idle"
    /\ saveSt.n < MaxSaves
    /\ \E cp \in SaveCheckpoints :
          saveSt' = [saveSt EXCEPT !.pc = "create", !.cp = cp,
                                   !.old = saveSt.disk.ckpt,
                                   !.n = @ + 1, !.result = "none",
                                   !.loaded = NotLoaded]
    /\ UNCHANGED <<pipeline, dedupSt, compatSt, tokSt, stageSt, progSt, assignSt, mergeSt, yearSt, extractSt, thrSt, writeSt>>

\* checkpoint.rs 80: File::create(&temp_path)?
SaveCreateFile ==
    /\ saveSt.pc = "create"
    /\ \/ saveSt' = SaveReturn("Err")
       \/ saveSt' = [saveSt EXCEPT !.pc = "write",
                                   !.disk = SaveCreate(@, saveSt.cp)]
    /\ UNCHANGED <<pipeline, dedupSt, compatSt, tokSt, stageSt, progSt, assignSt, mergeSt, yearSt, extractSt, thrSt, writeSt>>

\* checkpoint.rs 81-82: serde_json::to_writer_pretty(BufWriter::new(file),
\* self)?.  A write of a full buffer that fails is the Err of the
\* serialiser.  The BufWriter is moved into the call and dropped at its end:
\* the drop writes the bytes still buffered and discards an error of that
\* write, so the call returns Ok with the whole file or with a prefix.
SaveSerialise ==
    /\ saveSt.pc = "write"
    /\ \/ saveSt' = SaveReturn("Err")
       \/ saveSt' = [saveSt EXCEPT !.pc = "rename",
                                   !.disk = SaveWriteAll(@, saveSt.cp)]
       \/ saveSt' = [saveSt EXCEPT !.pc = "rename"]
    /\ UNCHANGED <<pipeline, dedupSt, compatSt, tokSt, stageSt, progSt, assignSt, mergeSt, yearSt, extractSt, thrSt, writeSt>>

\* checkpoint.rs 84-85: fs::rename(&temp_path, &path)?; Ok(())
SaveRenameFile ==
    /\ saveSt.pc = "rename"
    /\ \/ saveSt' = SaveReturn("Err")
       \/ saveSt' = [SaveReturn("Ok") EXCEPT !.disk = SaveRename(@)]
    /\ UNCHANGED <<pipeline, dedupSt, compatSt, tokSt, stageSt, progSt, assignSt, mergeSt, yearSt, extractSt, thrSt, writeSt>>

\* the process stops inside save
SaveCrash ==
    /\ saveSt.pc \in {"create", "write", "rename"}
    /\ saveSt' = SaveReturn("crash")
    /\ UNCHANGED <<pipeline, dedupSt, compatSt, tokSt, stageSt, progSt, assignSt, mergeSt, yearSt, extractSt, thrSt, writeSt>>

\* checkpoint.rs 61-72: Checkpoint::load on the directory, between saves
LoadCall ==
    /\ saveSt.pc = "idle"
    /\ ~saveSt.loaded.done
    /\ saveSt' = [saveSt EXCEPT
                     !.loaded = [done |-> TRUE, ok |-> Load(saveSt.disk).ok,
                                 some |-> Load(saveSt.disk).some,
                                 cp |-> Load(saveSt.disk).cp]]
    /\ UNCHANGED <<pipeline, dedupSt, compatSt, tokSt, stageSt, progSt, assignSt, mergeSt, yearSt, extractSt, thrSt, writeSt>>

NextSave ==
    \/ SaveCall \/ SaveCreateFile \/ SaveSerialise \/ SaveRenameFile
    \/ SaveCrash \/ LoadCall

SpecSave == InitSave /\ [][NextSave]_vars

\* C9: during and after a save, whether it returns Ok or Err or the process
\* stops, the checkpoint file is absent, or whole and the content it had
\* before the save, or whole and the saved checkpoint.
C9_CheckpointFileNeverPartial ==
    /\ saveSt.disk.ckpt.present => saveSt.disk.ckpt.whole
    /\ saveSt.disk.ckpt \in {Absent, saveSt.old, Whole(saveSt.cp)}

\* C11: a load that follows a save which returned Ok yields a checkpoint
\* equal to the saved one in every field; a load from a directory with no
\* checkpoint file yields none.
C11_SaveLoadRoundTrip ==
    saveSt.loaded.done =>
        /\ saveSt.result = "Ok" =>
               /\ saveSt.loaded.ok /\ saveSt.loaded.some
               /\ saveSt.loaded.cp = saveSt.cp
        /\ ~saveSt.disk.ckpt.present =>
               saveSt.loaded.ok /\ ~saveSt.loaded.some

------------------------------------------------------------------------------
(***************************************************************************)
(* checkpoint.rs: Checkpoint::is_compatible, on a checkpoint created for   *)
(* the options `saved` and the options of the current run.                 *)
(***************************************************************************)
BaseOptions == Options(FALSE, FALSE)

\* the base options, every change of one field, and two options that
\* differ in album_dest and output only
OptionVariants ==
    {BaseOptions,
     [BaseOptions EXCEPT !.divide_to_dates = TRUE],
     [BaseOptions EXCEPT !.skip_extras = TRUE],
     [BaseOptions EXCEPT !.no_guess = TRUE],
     [BaseOptions EXCEPT !.albums = TRUE],
     [BaseOptions EXCEPT !.album_dest = <<"a", "l", "b", "u", "m">>],
     [BaseOptions EXCEPT !.album_link = TRUE],
     [BaseOptions EXCEPT !.output = <<"o", "u", "t", "2">>],
     [BaseOptions EXCEPT !.force = TRUE],
     [BaseOptions EXCEPT !.album_dest = <<"a">>, !.output = <<"0", "b">>],
     [BaseOptions EXCEPT !.album_dest = <<"a", "0">>, !.output = <<"b">>]}

ZipLists == {ZipFiles, <<ZipFiles[1]>>, <<ZipFiles[2], ZipFiles[1]>>}

WithZips == {[o EXCEPT !.zip_files = z] : o \in OptionVariants, z \in ZipLists}

\* the archives' mtimes when the checkpoint was created, and now
SavedFs   == [Range(ZipFiles) -> {7, 8}]
CurrentFs == [Range(ZipFiles) -> {7, 8, NoMetadata}]

InitCompat ==
    /\ PipelineUnused
    /\ dedupSt = Idle /\ saveSt = Idle /\ tokSt = Idle /\ stageSt = Idle /\ progSt = Idle /\ assignSt = Idle /\ mergeSt = Idle /\ yearSt = Idle /\ extractSt = Idle /\ thrSt = Idle /\ writeSt = Idle
    /\ \E saved \in WithZips, fs0 \in SavedFs, options \in WithZips,
          fs \in CurrentFs, version \in {CHECKPOINT_VERSION, CHECKPOINT_VERSION + 1},
          completed \in BOOLEAN :
          compatSt = [pc |-> "call", saved |-> saved,
                      cp |-> [NewCheckpoint(saved, fs0) EXCEPT
                                 !.version = version, !.completed = completed],
                      options |-> options, fs |-> fs, result |-> "none"]

IsCompatible ==
    /\ compatSt.pc = "call"
    /\ compatSt' = [compatSt EXCEPT
                        !.pc = "done",
                        !.result = is_compatible(compatSt.cp, compatSt.options,
                                                 compatSt.fs)]
    /\ UNCHANGED <<pipeline, dedupSt, saveSt, tokSt, stageSt, progSt, assignSt, mergeSt, yearSt, extractSt, thrSt, writeSt>>

NextCompat == IsCompatible

SpecCompat == InitCompat /\ [][NextCompat]_vars

\* the options that the hash covers
HashedFields(o) ==
    <<o.divide_to_dates, o.skip_extras, o.no_guess, o.albums, o.album_dest,
      o.album_link, o.output>>

\* the hashed fields in which two options differ
DifferIn(o1, o2) ==
    {k \in DOMAIN HashedFields(o1) : HashedFields(o1)[k] # HashedFields(o2)[k]}

\* the mtime of every archive of the current run can be read
MtimesReadable ==
    \A i \in DOMAIN compatSt.options.zip_files :
        compatSt.fs[compatSt.options.zip_files[i]] # NoMetadata

\* the stored mtimes are those of the current run's archives
MtimesEqual ==
    /\ Len(compatSt.cp.zip_mtimes) = Len(compatSt.options.zip_files)
    /\ \A i \in DOMAIN compatSt.options.zip_files :
          compatSt.cp.zip_mtimes[i] = compatSt.fs[compatSt.options.zip_files[i]]

VersionEqual == compatSt.cp.version = CHECKPOINT_VERSION

HashEqual == compatSt.cp.options_hash = compute_options_hash(compatSt.options)

ZipFilesEqual == compatSt.cp.zip_files = compatSt.options.zip_files

\* C10: is_compatible returns true iff the version is the current one, the
\* checkpoint is not completed, the hash of the seven layout options equals
\* the stored hash, the archive list is equal and the archive mtimes are
\* equal; it returns false when one of them differs; a change of one hashed
\* option alone makes it return false.
C10_CompatibleIff ==
    compatSt.pc = "done" =>
        /\ compatSt.result = "true" <=>
               /\ VersionEqual /\ ~compatSt.cp.completed /\ HashEqual
               /\ ZipFilesEqual /\ MtimesReadable /\ MtimesEqual
        /\ compatSt.result = "false" <=>
               \/ ~VersionEqual \/ compatSt.cp.completed \/ ~HashEqual
               \/ ~ZipFilesEqual \/ (MtimesReadable /\ ~MtimesEqual)
        /\ Cardinality(DifferIn(compatSt.saved, compatSt.options)) = 1 =>
               compatSt.result = "false"

\* C10: a checkpoint of two archives was found compatible with options that
\* differ from the saved ones in force alone
C10_Witness ==
    /\ compatSt.pc = "done"
    /\ compatSt.result = "true"
    /\ Len(compatSt.cp.zip_files) = 2
    /\ compatSt.saved.force # compatSt.options.force


------------------------------------------------------------------------------
(***************************************************************************)
(* checkpoint.rs: CancellationToken.  The AtomicBools live on a heap; a    *)
(* token is a pair of references to them.  Threads call check(), whose     *)
(* loads and sleep are separate steps, while other threads call cancel()   *)
(* and set_paused() on any token.                                          *)
(***************************************************************************)
MaxTokens == 2     \* tokens made by new() and clone()
NumCheckers == 1   \* threads that call check()

\* CancellationToken::new: two fresh flags, both false; family is the token
\* that new() made, which the properties read
new(st) ==
    [st EXCEPT
        !.heap = @ \o <<FALSE, FALSE>>,
        !.tokens = Append(@, [cancelled |-> Len(st.heap) + 1,
                              paused |-> Len(st.heap) + 2,
                              family |-> Len(st.tokens) + 1]),
        !.called = Append(@, [cancel |-> FALSE, paused |-> FALSE, any |-> FALSE])]

\* a clone that copies the values of the flags into flags of its own
clone_copying_flags(st, h) ==
    [st EXCEPT
        !.heap = @ \o <<st.heap[st.tokens[h].cancelled], st.heap[st.tokens[h].paused]>>,
        !.tokens = Append(@, [cancelled |-> Len(st.heap) + 1,
                              paused |-> Len(st.heap) + 2,
                              family |-> st.tokens[h].family]),
        !.called = Append(@, [cancel |-> FALSE, paused |-> FALSE, any |-> FALSE])]

\* #[derive(Clone)]: Arc::clone of both fields, the flags are shared
clone(st, h) ==
    [st EXCEPT
        !.tokens = Append(@, st.tokens[h]),
        !.called = Append(@, [cancel |-> FALSE, paused |-> FALSE, any |-> FALSE])]

is_cancelled(st, h) == st.heap[st.tokens[h].cancelled]

is_paused(st, h) == st.heap[st.tokens[h].paused]

\* the calls of check() that wait in the paused loop of a token of family f
Waiting(st, f) ==
    {t \in DOMAIN st.th : /\ st.th[t].pc \in {"in_loop", "sleep", "while"}
                          /\ st.th[t].waiting
                          /\ st.tokens[st.th[t].h].family = f}

\* cancel: cancelled.store(true); hit: the call was waiting when cancel()
\* came; released: the pause flag was clear then or was cleared later
cancel(st, h) ==
    [st EXCEPT
        !.heap[st.tokens[h].cancelled] = TRUE,
        !.called[st.tokens[h].family].cancel = TRUE,
        !.called[st.tokens[h].family].any = TRUE,
        !.th = [t \in DOMAIN st.th |->
                   IF t \in Waiting(st, st.tokens[h].family)
                   THEN [st.th[t] EXCEPT !.hit = TRUE,
                                         !.released = @ \/ ~is_paused(st, h)]
                   ELSE st.th[t]]]

\* set_paused: paused.store(paused)
set_paused(st, h, paused) ==
    [st EXCEPT
        !.heap[st.tokens[h].paused] = paused,
        !.called[st.tokens[h].family].paused = paused,
        !.called[st.tokens[h].family].any = TRUE,
        !.th = [t \in DOMAIN st.th |->
                   IF t \in Waiting(st, st.tokens[h].family) /\ st.th[t].hit
                      /\ ~paused
                   THEN [st.th[t] EXCEPT !.released = TRUE]
                   ELSE st.th[t]]]

\* a thread that is not in check(): its last call returned ret
NoCall == [pc |-> "idle", h |-> 1, ret |-> "none", late |-> FALSE,
           waiting |-> FALSE, hit |-> FALSE, released |-> FALSE, naps |-> 0]

\* the sleeps that the properties count up to
MaxNaps == 2

InitToken ==
    /\ PipelineUnused
    /\ dedupSt = Idle /\ saveSt = Idle /\ compatSt = Idle /\ stageSt = Idle /\ progSt = Idle /\ assignSt = Idle /\ mergeSt = Idle /\ yearSt = Idle /\ extractSt = Idle /\ thrSt = Idle /\ writeSt = Idle
    /\ tokSt = new([pc |-> "idle", heap |-> << >>, tokens |-> << >>,
                    called |-> << >>,
                    th |-> [t \in 1..NumCheckers |-> NoCall]])

TokenNew ==
    /\ Len(tokSt.tokens) < MaxTokens
    /\ tokSt' = new(tokSt)
    /\ UNCHANGED <<pipeline, dedupSt, saveSt, compatSt, stageSt, progSt, assignSt, mergeSt, yearSt, extractSt, thrSt, writeSt>>

TokenClone ==
    /\ Len(tokSt.tokens) < MaxTokens
    /\ \E h \in DOMAIN tokSt.tokens : tokSt' = clone(tokSt, h)
    /\ UNCHANGED <<pipeline, dedupSt, saveSt, compatSt, stageSt, progSt, assignSt, mergeSt, yearSt, extractSt, thrSt, writeSt>>

TokenCancel ==
    /\ \E h \in DOMAIN tokSt.tokens : tokSt' = cancel(tokSt, h)
    /\ UNCHANGED <<pipeline, dedupSt, saveSt, compatSt, stageSt, progSt, assignSt, mergeSt, yearSt, extractSt, thrSt, writeSt>>

TokenSetPaused ==
    /\ \E h \in DOMAIN tokSt.tokens, paused \in BOOLEAN :
          tokSt' = set_paused(tokSt, h, paused)
    /\ UNCHANGED <<pipeline, dedupSt, saveSt, compatSt, stageSt, progSt, assignSt, mergeSt, yearSt, extractSt, thrSt, writeSt>>

\* the return of check() in thread t
CheckReturn(t, ret) ==
    tokSt' = [tokSt EXCEPT !.th[t].pc = "idle", !.th[t].ret = ret]

\* a thread calls check() on a token; late: cancel() had been called on the
\* token or a clone of it before
CheckCall(t) ==
    /\ tokSt.th[t].pc = "idle"
    /\ \E h \in DOMAIN tokSt.tokens :
          tokSt' = [tokSt EXCEPT
                       !.th[t] = [pc |-> "first", h |-> h, ret |-> "none",
                                  late |-> tokSt.called[tokSt.tokens[h].family].cancel,
                                  waiting |-> FALSE, hit |-> FALSE,
                                  released |-> FALSE, naps |-> 0]]
    /\ UNCHANGED <<pipeline, dedupSt, saveSt, compatSt, stageSt, progSt, assignSt, mergeSt, yearSt, extractSt, thrSt, writeSt>>

\* checkpoint.rs 234-236: if self.is_cancelled() { return Err }
CheckFirst(t) ==
    /\ tokSt.th[t].pc = "first"
    /\ IF is_cancelled(tokSt, tokSt.th[t].h)
       THEN CheckReturn(t, "Err")
       ELSE tokSt' = [tokSt EXCEPT !.th[t].pc = "while"]
    /\ UNCHANGED <<pipeline, dedupSt, saveSt, compatSt, stageSt, progSt, assignSt, mergeSt, yearSt, extractSt, thrSt, writeSt>>

\* checkpoint.rs 239, 246: while self.is_paused() { .. } Ok(())
CheckWhile(t) ==
    /\ tokSt.th[t].pc = "while"
    /\ IF is_paused(tokSt, tokSt.th[t].h)
       THEN tokSt' = [tokSt EXCEPT !.th[t].pc = "in_loop",
                                   !.th[t].waiting = TRUE]
       ELSE CheckReturn(t, "Ok")
    /\ UNCHANGED <<pipeline, dedupSt, saveSt, compatSt, stageSt, progSt, assignSt, mergeSt, yearSt, extractSt, thrSt, writeSt>>

\* the loop without its test of the cancel flag
CheckInLoopWithoutTest(t) ==
    /\ tokSt.th[t].pc = "in_loop"
    /\ tokSt' = [tokSt EXCEPT !.th[t].pc = "sleep"]
    /\ UNCHANGED <<pipeline, dedupSt, saveSt, compatSt, stageSt, progSt, assignSt, mergeSt, yearSt, extractSt, thrSt, writeSt>>

\* checkpoint.rs 240-242: if self.is_cancelled() { return Err }
CheckInLoop(t) ==
    /\ tokSt.th[t].pc = "in_loop"
    /\ IF is_cancelled(tokSt, tokSt.th[t].h)
       THEN CheckReturn(t, "Err")
       ELSE tokSt' = [tokSt EXCEPT !.th[t].pc = "sleep"]
    /\ UNCHANGED <<pipeline, dedupSt, saveSt, compatSt, stageSt, progSt, assignSt, mergeSt, yearSt, extractSt, thrSt, writeSt>>

\* checkpoint.rs 243: std::thread::sleep(100 ms); naps: the sleeps begun
\* after a cancel() that came while the call was waiting
CheckSleep(t) ==
    /\ tokSt.th[t].pc = "sleep"
    /\ tokSt' = [tokSt EXCEPT
                    !.th[t].pc = "while",
                    !.th[t].naps = IF tokSt.th[t].hit THEN Min(@ + 1, MaxNaps)
                                   ELSE @]
    /\ UNCHANGED <<pipeline, dedupSt, saveSt, compatSt, stageSt, progSt, assignSt, mergeSt, yearSt, extractSt, thrSt, writeSt>>

Check(t) ==
    \/ CheckCall(t) \/ CheckFirst(t) \/ CheckWhile(t) \/ CheckInLoop(t)
    \/ CheckSleep(t)

NextToken ==
    \/ TokenNew \/ TokenClone \/ TokenCancel \/ TokenSetPaused
    \/ \E t \in 1..NumCheckers : Check(t)

SpecToken == InitToken /\ [][NextToken]_vars

\* the calls of check() that have returned
Returned == {t \in DOMAIN tokSt.th : tokSt.th[t].pc = "idle" /\ tokSt.th[t].ret # "none"}

FamilyOf(h) == tokSt.tokens[h].family

\* C12: cancel is terminal and pause is releasable: once cancel() has been
\* called on a token or a clone of it, is_cancelled() is true on every one
\* of them and every call of check() made from then on returns
\* CancelledError, whatever set_paused calls happen; is_paused() is what the
\* last set_paused on the token or a clone of it stored, false on a fresh
\* token and false again after set_paused(true), set_paused(false); check()
\* on a token with no cancel and no set_paused call returns Ok.
C12_CancelTerminalPauseReleasable ==
    /\ \A h \in DOMAIN tokSt.tokens :
          /\ tokSt.called[FamilyOf(h)].cancel => is_cancelled(tokSt, h)
          /\ is_paused(tokSt, h) = tokSt.called[FamilyOf(h)].paused
          /\ ~tokSt.called[FamilyOf(h)].any =>
                ~is_cancelled(tokSt, h) /\ ~is_paused(tokSt, h)
    /\ \A t \in Returned :
          /\ tokSt.th[t].late => tokSt.th[t].ret = "Err"
          /\ ~tokSt.called[FamilyOf(tokSt.th[t].h)].any => tokSt.th[t].ret = "Ok"

\* C12 witness: after cancel() on the first token or its clone, a call of
\* check() on the clone has returned CancelledError while the pause flag
\* is set
C12_Witness ==
    \E t \in Returned :
        /\ tokSt.th[t].late
        /\ tokSt.th[t].ret = "Err"
        /\ is_paused(tokSt, tokSt.th[t].h)
        /\ tokSt.th[t].h > 1
        /\ FamilyOf(tokSt.th[t].h) = 1


\* C13 (as stated): a cancel() issued while check() waits in its paused loop
\* makes that same call return CancelledError, under every interleaving of
\* cancel() and set_paused(false) with the waiting thread.
C13_CancelWhileWaitingReturnsErr ==
    \A t \in Returned : tokSt.th[t].hit => tokSt.th[t].ret = "Err"

\* C13 (amended): a cancel() issued while check() waits in its paused loop
\* makes that same call return CancelledError at its next test of the cancel
\* flag, after at most one further sleep, unless set_paused(false) has
\* cleared the pause flag by the call's next test of it; check() returns Ok
\* only if the cancel flag was clear when the call began.
C13_CancelSeenAtNextTest ==
    /\ \A t \in Returned :
          /\ tokSt.th[t].hit /\ ~tokSt.th[t].released => tokSt.th[t].ret = "Err"
          /\ tokSt.th[t].ret = "Ok" => ~tokSt.th[t].late
    /\ \A t \in DOMAIN tokSt.th : tokSt.th[t].naps <= 1

\* C13 witness: a call of check() that was waiting when cancel() came has
\* slept once more and returned CancelledError, the pause flag still set
C13_Witness ==
    \E t \in Returned :
        /\ tokSt.th[t].hit /\ ~tokSt.th[t].released
        /\ tokSt.th[t].naps = 1
        /\ tokSt.th[t].ret = "Err"
        /\ is_paused(tokSt, tokSt.th[t].h)


------------------------------------------------------------------------------
(***************************************************************************)
(* lib.rs, dedup.rs, writer.rs: the stages of process_with_control that    *)
(* spawn worker threads, each thread working through its chunk of archive  *)
(* entries, and a cancel() of the run's token at any moment.               *)
(***************************************************************************)
MaxChunk == 2   \* archive entries in the chunk of one worker thread

\* the stages with worker threads, in the driver's order
WorkerStages == <<"date-exif", "date-exif-album", "dedup", "write">>

\* writer.rs 220-225: of the worker loops only write_output's calls check()
ChecksToken(stage) == stage = "write"

\* a thread with nothing to do
NoChunk == [pc |-> "done", chunk |-> 0, left |-> 0, after |-> 0,
            waited |-> FALSE, naps |-> 0]

\* the numbered names of IMG.jpg that are taken before a search: any of
\* the first MaxTaken
MaxTaken == 2   \* numbered names in used_paths or in the output directory

\* the candidate of a search at a counter value, in the main output
\* (writer.rs 149-154) and in an album folder (writer.rs 317-322)
Candidate(dir, counter) == PathJoin(dir, Numbered(FileName("IMG"), counter))

TakenPool(dir) == {Candidate(dir, k) : k \in 1..MaxTaken}

\* no search: [counter, used, existing]
NoSearch == [counter |-> 0, used |-> {}, existing |-> {}]

InitStages ==
    /\ PipelineUnused
    /\ dedupSt = Idle /\ saveSt = Idle /\ compatSt = Idle /\ tokSt = Idle /\ progSt = Idle /\ assignSt = Idle /\ mergeSt = Idle /\ yearSt = Idle /\ extractSt = Idle /\ thrSt = Idle /\ writeSt = Idle
    /\ stageSt = [pc |-> "check", stage |-> 1, cancelled |-> FALSE,
                  paused |-> FALSE,
                  w |-> [t \in 1..NumThreads |-> NoChunk],
                  late |-> 0, result |-> "none",
                  installed |-> [s \in DOMAIN WorkerStages |-> FALSE],
                  search |-> NoSearch]

\* lib.rs 187-194, 303-310, 459-466, 480-487, writer.rs 193-198: the check of
\* the token ahead of a stage, which waits while the pause flag is set, and
\* the spawn of the stage's threads, one per chunk; late counts the stages
\* begun after cancel()
StageStart ==
    /\ stageSt.pc = "check"
    /\ IF stageSt.cancelled
       THEN stageSt' = [stageSt EXCEPT !.pc = "done", !.result = "Cancelled"]
       ELSE /\ ~stageSt.paused
            /\ \E left \in [1..NumThreads -> 1..MaxChunk] :
                  stageSt' = [stageSt EXCEPT
                                 !.pc = "run",
                                 !.late = IF stageSt.cancelled THEN @ + 1 ELSE @,
                                 !.w = [t \in 1..NumThreads |->
                                           [NoChunk EXCEPT !.pc = "loop",
                                                           !.chunk = left[t],
                                                           !.left = left[t]]]]
    /\ UNCHANGED <<pipeline, dedupSt, saveSt, compatSt, tokSt, progSt, assignSt, mergeSt, yearSt, extractSt, thrSt, writeSt>>

\* lib.rs 265, dedup.rs 102, writer.rs 218-225: the head of the loop over the
\* chunk and, where the loop calls check(), its first test of the cancel
\* flag (checkpoint.rs 234)
WorkerLoop(t) ==
    /\ stageSt.pc = "run"
    /\ stageSt.w[t].pc = "loop"
    /\ IF stageSt.w[t].left = 0
       THEN stageSt' = [stageSt EXCEPT !.w[t].pc = "done"]
       ELSE IF ~ChecksToken(WorkerStages[stageSt.stage])
       THEN stageSt' = [stageSt EXCEPT !.w[t].pc = "start"]
       ELSE IF stageSt.cancelled
       THEN stageSt' = [stageSt EXCEPT !.w[t].pc = "done",
                                       !.result = "Cancelled"]
       ELSE stageSt' = [stageSt EXCEPT !.w[t].pc = "while"]
    /\ UNCHANGED <<pipeline, dedupSt, saveSt, compatSt, tokSt, progSt, assignSt, mergeSt, yearSt, extractSt, thrSt, writeSt>>

\* a check() that fails when it finds the pause flag set
WorkerWhileFailing(t) ==
    /\ stageSt.pc = "run"
    /\ stageSt.w[t].pc = "while"
    /\ IF stageSt.paused
       THEN stageSt' = [stageSt EXCEPT !.w[t].pc = "done",
                                       !.result = "Cancelled"]
       ELSE stageSt' = [stageSt EXCEPT !.w[t].pc = "start", !.w[t].naps = 0]
    /\ UNCHANGED <<pipeline, dedupSt, saveSt, compatSt, tokSt, progSt, assignSt, mergeSt, yearSt, extractSt, thrSt, writeSt>>

\* checkpoint.rs 239, 246: while self.is_paused() { .. } Ok(())
WorkerWhile(t) ==
    /\ stageSt.pc = "run"
    /\ stageSt.w[t].pc = "while"
    /\ IF stageSt.paused
       THEN stageSt' = [stageSt EXCEPT !.w[t].pc = "in_loop",
                                       !.w[t].waited = TRUE]
       ELSE stageSt' = [stageSt EXCEPT !.w[t].pc = "start", !.w[t].naps = 0]
    /\ UNCHANGED <<pipeline, dedupSt, saveSt, compatSt, tokSt, progSt, assignSt, mergeSt, yearSt, extractSt, thrSt, writeSt>>

\* checkpoint.rs 240-243: the test of the cancel flag in the loop, and the
\* start of the sleep; naps counts the sleeps begun with the pause flag clear
WorkerInLoop(t) ==
    /\ stageSt.pc = "run"
    /\ stageSt.w[t].pc = "in_loop"
    /\ IF stageSt.cancelled
       THEN stageSt' = [stageSt EXCEPT !.w[t].pc = "done",
                                       !.result = "Cancelled"]
       ELSE stageSt' = [stageSt EXCEPT
                           !.w[t].pc = "sleep",
                           !.w[t].naps = IF stageSt.paused THEN @ ELSE @ + 1]
    /\ UNCHANGED <<pipeline, dedupSt, saveSt, compatSt, tokSt, progSt, assignSt, mergeSt, yearSt, extractSt, thrSt, writeSt>>

\* checkpoint.rs 243: the 100 ms sleep is over
WorkerSleep(t) ==
    /\ stageSt.pc = "run"
    /\ stageSt.w[t].pc = "sleep"
    /\ stageSt' = [stageSt EXCEPT !.w[t].pc = "while"]
    /\ UNCHANGED <<pipeline, dedupSt, saveSt, compatSt, tokSt, progSt, assignSt, mergeSt, yearSt, extractSt, thrSt, writeSt>>

\* lib.rs 267-270, dedup.rs 104, writer.rs 227: the thread starts on the next
\* entry of its chunk; after counts the entries started after cancel()
WorkerStart(t) ==
    /\ stageSt.pc = "run"
    /\ stageSt.w[t].pc = "start"
    /\ stageSt' = [stageSt EXCEPT
                      !.w[t].pc = "unit",
                      !.w[t].after = IF stageSt.cancelled THEN @ + 1 ELSE @]
    /\ UNCHANGED <<pipeline, dedupSt, saveSt, compatSt, tokSt, progSt, assignSt, mergeSt, yearSt, extractSt, thrSt, writeSt>>

\* lib.rs 271-281, dedup.rs 105-113, writer.rs 228-247: the entry is read
WorkerFinish(t) ==
    /\ stageSt.pc = "run"
    /\ stageSt.w[t].pc = "unit"
    /\ stageSt' = [stageSt EXCEPT !.w[t].pc = "loop", !.w[t].left = @ - 1]
    /\ UNCHANGED <<pipeline, dedupSt, saveSt, compatSt, tokSt, progSt, assignSt, mergeSt, yearSt, extractSt, thrSt, writeSt>>

StageWorker(t) ==
    \/ WorkerLoop(t) \/ WorkerWhile(t) \/ WorkerInLoop(t) \/ WorkerSleep(t)
    \/ WorkerStart(t) \/ WorkerFinish(t)

\* a driver that goes on as soon as one thread has ended
StageJoinEarly ==
    /\ stageSt.pc = "run"
    /\ \E t \in 1..NumThreads : stageSt.w[t].pc = "done"
    /\ IF stageSt.result = "Cancelled"
       THEN stageSt' = [stageSt EXCEPT !.pc = "done"]
       ELSE IF stageSt.stage = Len(WorkerStages)
       THEN stageSt' = [stageSt EXCEPT !.pc = "done", !.result = "Ok"]
       ELSE stageSt' = [stageSt EXCEPT !.pc = "check", !.stage = @ + 1,
                                       !.installed[stageSt.stage] = TRUE]
    /\ UNCHANGED <<pipeline, dedupSt, saveSt, compatSt, tokSt, progSt, assignSt, mergeSt, yearSt, extractSt, thrSt, writeSt>>

\* lib.rs 287-299, 442-455, dedup.rs 120-136, writer.rs 253-256, 266-269:
\* the join of the threads, after which the driver installs the dates or
\* the hashes that the threads of the stage returned in the media vector;
\* write_output returns CancelledError if a thread saw the cancel
StageJoin ==
    /\ stageSt.pc = "run"
    /\ \A t \in 1..NumThreads : stageSt.w[t].pc = "done"
    /\ IF stageSt.result = "Cancelled"
       THEN stageSt' = [stageSt EXCEPT !.pc = "done"]
       ELSE IF stageSt.stage = Len(WorkerStages)
       THEN \/ stageSt' = [stageSt EXCEPT !.pc = "done", !.result = "Ok"]
            \/ \E used \in SUBSET TakenPool("albums/Trip"),
                  existing \in SUBSET TakenPool("albums/Trip") :
                  stageSt' = [stageSt EXCEPT
                      !.pc = "album",
                      !.search = [counter |-> 1, used |-> used,
                                  existing |-> existing]]
       ELSE IF WorkerStages[stageSt.stage + 1] = "write"
       THEN \E used \in SUBSET TakenPool(RootDir),
               existing \in SUBSET TakenPool(RootDir) :
               stageSt' = [stageSt EXCEPT
                   !.pc = "assign", !.stage = @ + 1,
                   !.installed[stageSt.stage] = TRUE,
                   !.search = [counter |-> 0, used |-> used,
                               existing |-> existing]]
       ELSE stageSt' = [stageSt EXCEPT !.pc = "check", !.stage = @ + 1,
                                       !.installed[stageSt.stage] = TRUE]
    /\ UNCHANGED <<pipeline, dedupSt, saveSt, compatSt, tokSt, progSt, assignSt, mergeSt, yearSt, extractSt, thrSt, writeSt>>

\* a search that forms the candidate of the same number again
StageProbeSameCandidate ==
    /\ stageSt.pc = "assign"
    /\ LET candidate == Candidate(RootDir, stageSt.search.counter)
       IN  IF candidate \notin stageSt.search.used
              /\ candidate \notin stageSt.search.existing
              /\ stageSt.search.counter > 0
           THEN stageSt' = [stageSt EXCEPT !.pc = "check",
                                           !.search = NoSearch]
           ELSE stageSt' = [stageSt EXCEPT
                               !.search.counter = Min(@ + 1, 1)]
    /\ UNCHANGED <<pipeline, dedupSt, saveSt, compatSt, tokSt, progSt, assignSt, mergeSt, yearSt, extractSt, thrSt, writeSt>>

\* writer.rs 146-160: in phase 1 of write_output, one turn of the loop
\* that looks for a free numbered name: the counter is incremented, the
\* candidate formed and tested against used_paths and existing_files
StageProbe ==
    /\ stageSt.pc = "assign"
    /\ LET counter   == stageSt.search.counter + 1
           candidate == Candidate(RootDir, counter)
       IN  IF candidate \notin stageSt.search.used
              /\ candidate \notin stageSt.search.existing
           THEN stageSt' = [stageSt EXCEPT !.pc = "check",
                                           !.search = NoSearch]
           ELSE stageSt' = [stageSt EXCEPT !.search.counter = counter]
    /\ UNCHANGED <<pipeline, dedupSt, saveSt, compatSt, tokSt, progSt, assignSt, mergeSt, yearSt, extractSt, thrSt, writeSt>>

\* writer.rs 315-327: in write_album_folders, one turn of the loop that
\* looks for a free numbered name in the album's folder: the candidate of
\* the counter is formed and tested against the album's used set and the
\* folder, then the counter is incremented; lib.rs 529-535: Ok
AlbumProbe ==
    /\ stageSt.pc = "album"
    /\ LET candidate == Candidate("albums/Trip", stageSt.search.counter)
       IN  IF candidate \notin stageSt.search.used
              /\ candidate \notin stageSt.search.existing
           THEN stageSt' = [stageSt EXCEPT !.pc = "done", !.result = "Ok",
                                           !.search = NoSearch]
           ELSE stageSt' = [stageSt EXCEPT !.search.counter = @ + 1]
    /\ UNCHANGED <<pipeline, dedupSt, saveSt, compatSt, tokSt, progSt, assignSt, mergeSt, yearSt, extractSt, thrSt, writeSt>>

\* checkpoint.rs 212-214: cancel() from another thread
StageCancel ==
    /\ stageSt.pc # "done"
    /\ ~stageSt.cancelled
    /\ stageSt' = [stageSt EXCEPT !.cancelled = TRUE]
    /\ UNCHANGED <<pipeline, dedupSt, saveSt, compatSt, tokSt, progSt, assignSt, mergeSt, yearSt, extractSt, thrSt, writeSt>>

\* checkpoint.rs 222-224: set_paused() from another thread
StagePause ==
    /\ stageSt.pc # "done"
    /\ stageSt' = [stageSt EXCEPT
                      !.paused = ~@,
                      !.w = [t \in 1..NumThreads |->
                                [stageSt.w[t] EXCEPT
                                    !.naps = IF stageSt.paused THEN @ ELSE 0]]]
    /\ UNCHANGED <<pipeline, dedupSt, saveSt, compatSt, tokSt, progSt, assignSt, mergeSt, yearSt, extractSt, thrSt, writeSt>>

NextStages ==
    \/ StageStart \/ StageJoin \/ StageCancel \/ StagePause
    \/ StageProbe \/ AlbumProbe
    \/ \E t \in 1..NumThreads : StageWorker(t)

SpecStages == InitStages /\ [][NextStages]_vars

\* the driver and the spawned threads are operating-system threads, which
\* the scheduler runs, and a sleep ends
SpecStagesFair ==
    /\ SpecStages
    /\ WF_vars(StageStart) /\ WF_vars(StageJoin)
    /\ WF_vars(StageProbe) /\ WF_vars(AlbumProbe)
    /\ \A t \in 1..NumThreads : WF_vars(StageWorker(t))

\* C14: after cancel() is called, each worker thread of the EXIF, dedup and
\* write stages starts at most one further archive entry before it stops,
\* and the driver starts no further stage.
C14_CancelWithinOneUnit ==
    /\ \A t \in 1..NumThreads : stageSt.w[t].after <= 1
    /\ stageSt.late = 0


\* the write workers that are in check(), at or after its test of the pause
\* flag
AtCheckPoint ==
    {t \in 1..NumThreads :
        /\ stageSt.pc = "run"
        /\ ChecksToken(WorkerStages[stageSt.stage])
        /\ stageSt.w[t].pc \in {"while", "in_loop", "sleep"}}

\* a worker that finds the pause flag set does not go on to an entry
PausedWorkerHolds ==
    \A t \in AtCheckPoint :
        stageSt.paused => stageSt'.w[t].pc \notin {"start", "unit"}

\* the result of a run that is never paused and never cancelled: Ok, every
\* thread having read every entry of its chunk
UnpausedResult ==
    /\ stageSt.result = "Ok"
    /\ stageSt.stage = Len(WorkerStages)
    /\ \A t \in 1..NumThreads : stageSt.w[t].left = 0 /\ stageSt.w[t].pc = "done"

\* C15: while the pause flag is set and cancel is not requested, a write
\* worker at its check point starts no new entry and no error is produced;
\* once the pause flag is clear a waiting check() returns Ok after at most
\* one more 100 ms sleep and the worker goes on to its next entry; a run that
\* is not cancelled and not paused for ever completes, with the result of a
\* run that was never paused.
C15_PauseSemantics ==
    /\ [][PausedWorkerHolds]_vars
    /\ [](~stageSt.cancelled => stageSt.result \in {"none", "Ok"})
    /\ [](\A t \in 1..NumThreads : stageSt.w[t].naps <= 1)
    /\ \A t \in 1..NumThreads :
          (t \in AtCheckPoint /\ ~stageSt.paused /\ ~stageSt.cancelled)
              ~> (stageSt.w[t].pc = "start" \/ stageSt.paused \/ stageSt.cancelled)
    /\ [](stageSt.pc = "done" /\ ~stageSt.cancelled => UnpausedResult)
    /\ (<>[](~stageSt.paused) => <>(stageSt.pc = "done"))

\* C15 witness: a run in which a write worker waited in check() on the pause
\* flag has completed with Ok, never cancelled
C15_Witness ==
    /\ stageSt.pc = "done"
    /\ stageSt.result = "Ok"
    /\ ~stageSt.cancelled
    /\ \E t \in 1..NumThreads : stageSt.w[t].waited /\ stageSt.w[t].chunk = MaxChunk


------------------------------------------------------------------------------
(***************************************************************************)
(* lib.rs: ThrottledProgress::report, called by the threads of the stages  *)
(* of one run.  Time is counted in ticks of 100 ms.                        *)
(***************************************************************************)
MaxTime == 2     \* ticks that the clock advances
MaxTotal == 3    \* the total of a stage
MaxStages == 2   \* stages of the run that report

\* lib.rs 113: the throttle of 200 ms, in ticks
ThrottleTicks == 2

\* lib.rs 105: last_emit starts one second in the past, in ticks
InitialAge == 10

\* the ways in which a stage reports: zip_scan.rs 71-72, 154 (current = 0 ..
\* total - 1, then total, from the driver); lib.rs 216 (current = total
\* alone, from the driver); lib.rs 278-279, 428-434, dedup.rs 114-115,
\* writer.rs 245-246 (current from a shared counter, from the workers)
StageKinds == {"scan", "date", "workers"}

\* the first and one past the last value of current in a stage
FirstCurrent(kind, total) == IF kind = "date" THEN total ELSE 0

EndCurrent(kind, total) == IF kind = "workers" THEN total ELSE total + 1

\* the threads that report in a stage
Reporters(kind) == IF kind = "workers" THEN 1..NumThreads ELSE {1}

\* lib.rs 110: let is_done = current + 1 >= total
is_done(current, total) == current + 1 >= total

\* lib.rs 102-107: ThrottledProgress::new
NewThrottledProgress(now) == now - InitialAge

\* the next stage begins; of the events of the stages before, the last
\* delivered one is kept
BeginStage(st, n, kind, total) ==
    [st EXCEPT !.stage = n, !.kind = kind, !.total = total,
               !.counter = FirstCurrent(kind, total),
               !.delivered = IF @ = << >> THEN @ ELSE <<@[Len(@)]>>,
               !.suppressed = {}]

InitProgress ==
    /\ PipelineUnused
    /\ dedupSt = Idle /\ saveSt = Idle /\ compatSt = Idle /\ tokSt = Idle /\ stageSt = Idle /\ assignSt = Idle /\ mergeSt = Idle /\ yearSt = Idle /\ extractSt = Idle /\ thrSt = Idle /\ writeSt = Idle
    /\ \E kind \in StageKinds, total \in 1..MaxTotal :
          progSt = BeginStage(
                      [pc |-> "run", now |-> 0,
                       last_emit |-> NewThrottledProgress(0),
                       stage |-> 1, kind |-> kind, total |-> total, counter |-> 0,
                       th |-> [t \in 1..NumThreads |-> [pc |-> "idle", current |-> 0]],
                       delivered |-> << >>, suppressed |-> {}],
                      1, kind, total)

\* lib.rs 278, dedup.rs 114, writer.rs 245, zip_scan.rs 71: the thread takes
\* the next value of current
ReportFetch(t) ==
    /\ t \in Reporters(progSt.kind)
    /\ progSt.th[t].pc = "idle"
    /\ progSt.counter < EndCurrent(progSt.kind, progSt.total)
    /\ progSt' = [progSt EXCEPT !.counter = @ + 1,
                                !.th[t] = [pc |-> "report",
                                           current |-> progSt.counter]]
    /\ UNCHANGED <<pipeline, dedupSt, saveSt, compatSt, tokSt, stageSt, assignSt, mergeSt, yearSt, extractSt, thrSt, writeSt>>

\* the event of thread t
EventOf(t) ==
    [stage |-> progSt.stage, current |-> progSt.th[t].current,
     total |-> progSt.total]

\* a report that puts every event to the throttle
ReportTestThrottlingAll(t) ==
    /\ progSt.th[t].pc = "report"
    /\ IF progSt.now - progSt.last_emit < ThrottleTicks
       THEN progSt' = [progSt EXCEPT !.th[t].pc = "idle",
                                     !.suppressed = @ \cup {EventOf(t)}]
       ELSE progSt' = [progSt EXCEPT !.th[t].pc = "call",
                                     !.last_emit = progSt.now]
    /\ UNCHANGED <<pipeline, dedupSt, saveSt, compatSt, tokSt, stageSt, assignSt, mergeSt, yearSt, extractSt, thrSt, writeSt>>

\* lib.rs 110-117: the test of is_done and, under the mutex, of the time
\* since last_emit
ReportTest(t) ==
    /\ progSt.th[t].pc = "report"
    /\ IF is_done(progSt.th[t].current, progSt.total)
       THEN progSt' = [progSt EXCEPT !.th[t].pc = "call"]
       ELSE IF progSt.now - progSt.last_emit < ThrottleTicks
       THEN progSt' = [progSt EXCEPT !.th[t].pc = "idle",
                                     !.suppressed = @ \cup {EventOf(t)}]
       ELSE progSt' = [progSt EXCEPT !.th[t].pc = "call",
                                     !.last_emit = progSt.now]
    /\ UNCHANGED <<pipeline, dedupSt, saveSt, compatSt, tokSt, stageSt, assignSt, mergeSt, yearSt, extractSt, thrSt, writeSt>>

\* lib.rs 118: the callback is called, the mutex released
ReportCall(t) ==
    /\ progSt.th[t].pc = "call"
    /\ progSt' = [progSt EXCEPT
                    !.th[t].pc = "idle",
                    !.delivered = Append(@, [stage |-> progSt.stage,
                                             current |-> progSt.th[t].current,
                                             total |-> progSt.total,
                                             at |-> progSt.now])]
    /\ UNCHANGED <<pipeline, dedupSt, saveSt, compatSt, tokSt, stageSt, assignSt, mergeSt, yearSt, extractSt, thrSt, writeSt>>

\* 100 ms pass
ProgressTick ==
    /\ progSt.now < MaxTime
    /\ progSt' = [progSt EXCEPT !.now = @ + 1]
    /\ UNCHANGED <<pipeline, dedupSt, saveSt, compatSt, tokSt, stageSt, assignSt, mergeSt, yearSt, extractSt, thrSt, writeSt>>

\* every report of the stage was made and has returned
StageReported ==
    /\ progSt.counter = EndCurrent(progSt.kind, progSt.total)
    /\ \A t \in 1..NumThreads : progSt.th[t].pc = "idle"

\* the stage is over and the next one begins
ProgressNextStage ==
    /\ StageReported
    /\ progSt.stage < MaxStages
    /\ \E kind \in StageKinds, total \in 1..MaxTotal :
          progSt' = BeginStage(progSt, progSt.stage + 1, kind, total)
    /\ UNCHANGED <<pipeline, dedupSt, saveSt, compatSt, tokSt, stageSt, assignSt, mergeSt, yearSt, extractSt, thrSt, writeSt>>

NextProgress ==
    \/ ProgressTick \/ ProgressNextStage
    \/ \E t \in 1..NumThreads : ReportFetch(t) \/ ReportTest(t) \/ ReportCall(t)

SpecProgress == InitProgress /\ [][NextProgress]_vars

\* the delivered events of stage n
DeliveredOf(n) ==
    {i \in DOMAIN progSt.delivered : progSt.delivered[i].stage = n}

C17_NonFinalEventsSpaced ==
    \A i \in DOMAIN progSt.delivered :
        (i > 1 /\ ~is_done(progSt.delivered[i].current, progSt.delivered[i].total))
            => progSt.delivered[i].at - progSt.delivered[i - 1].at >= ThrottleTicks


------------------------------------------------------------------------------
(***************************************************************************)
(* writer.rs: the assignment of destinations (phase 1 of write_output) on  *)
(* a fresh run, one record of the media list after the other.              *)
(***************************************************************************)
MaxAssign == 3   \* media records of the list

\* the records: four named IMG.jpg, two of them of the same month and one
\* without a date, and one named IMG(1).jpg
AssignEntries ==
    {[zip_path |-> <<"Photos from 2022", n>>, zip_index |-> 0,
      filename |-> FileName("IMG"), size |-> n, date |-> "2022/01"] : n \in 1..2}
    \cup {[zip_path |-> <<"Photos from 2023", 1>>, zip_index |-> 0,
           filename |-> FileName("IMG"), size |-> 1, date |-> "2023/02"],
          [zip_path |-> <<"Photos from 2022", 3>>, zip_index |-> 0,
           filename |-> Numbered(FileName("IMG"), 1), size |-> 1,
           date |-> "2022/01"],
          [zip_path |-> <<"Photos from 2021", 1>>, zip_index |-> 0,
           filename |-> FileName("IMG"), size |-> 1, date |-> None]}

\* the lists of n distinct records
AssignLists(n) ==
    {m \in [1..n -> AssignEntries] : \A i, j \in 1..n : m[i] = m[j] => i = j}

\* the files in the output directory before the run
AssignFiles ==
    {<< >>,
     [p \in {PathJoin(RootDir, Numbered(FileName("IMG"), 1))} |-> Foreign(2)],
     [p \in {PathJoin(RootDir, FileName("IMG"))} |-> Foreign(1)]}

\* writer.rs 62-67: the state of the assignment before the first record
AssignStart ==
    [counters |-> << >>, used |-> {}, dirs |-> {}, created |-> << >>,
     skip |-> {}, assignments |-> << >>]

InitAssign ==
    /\ PipelineUnused
    /\ dedupSt = Idle /\ saveSt = Idle /\ compatSt = Idle /\ tokSt = Idle /\ stageSt = Idle /\ progSt = Idle /\ mergeSt = Idle /\ yearSt = Idle /\ extractSt = Idle /\ thrSt = Idle /\ writeSt = Idle
    /\ \E n \in 0..MaxAssign :
          \E media \in AssignLists(n), files \in AssignFiles, d \in BOOLEAN :
              assignSt = [pc |-> "loop", media |-> media, files |-> files,
                          divide_to_dates |-> d, idx |-> 1, st |-> AssignStart,
                          probes |-> {}, log |-> [reprobed |-> FALSE,
                                                  decreased |-> FALSE]]

\* the base destination of record m
BaseDest(m, divide_to_dates) ==
    PathJoin(SubDirOf(m, divide_to_dates), m.filename)

\* the numbered candidates that the loop of writer.rs 147-160 forms for
\* record m, as pairs of the base and the number
Probed(before, after, m, divide_to_dates) ==
    LET base_dest == BaseDest(m, divide_to_dates)
    IN  {<<base_dest, n>> :
            n \in (CounterOf(before.counters, base_dest) + 1)
                    .. after.counters[base_dest]}

\* writer.rs 92-165: one iteration of the loop over the media list
AssignStep ==
    /\ assignSt.pc = "loop"
    /\ assignSt.idx <= Len(assignSt.media)
    /\ LET m      == assignSt.media[assignSt.idx]
           before == assignSt.st
           after  == AssignOne(before, assignSt.idx, m, << >>,
                               ExistingFiles(assignSt.files, << >>, FALSE),
                               assignSt.divide_to_dates)
           probed == Probed(before, after, m, assignSt.divide_to_dates)
       IN  assignSt' = [assignSt EXCEPT
              !.st = after,
              !.idx = @ + 1,
              !.probes = @ \cup probed,
              !.log = [reprobed  |-> @.reprobed
                                     \/ probed \cap assignSt.probes # {},
                       decreased |-> @.decreased
                                     \/ \E p \in DOMAIN before.counters :
                                           after.counters[p] < before.counters[p]]]
    /\ UNCHANGED <<pipeline, dedupSt, saveSt, compatSt, tokSt, stageSt, progSt, mergeSt, yearSt, extractSt, thrSt, writeSt>>

\* writer.rs 166: the loop is over
AssignEnd ==
    /\ assignSt.pc = "loop"
    /\ assignSt.idx > Len(assignSt.media)
    /\ assignSt' = [assignSt EXCEPT !.pc = "done"]
    /\ UNCHANGED <<pipeline, dedupSt, saveSt, compatSt, tokSt, stageSt, progSt, mergeSt, yearSt, extractSt, thrSt, writeSt>>

NextAssign == AssignStep \/ AssignEnd

SpecAssign == InitAssign /\ [][NextAssign]_vars

\* the records assigned so far
AssignedSoFar == 1..Len(assignSt.st.assignments)

\* the records assigned so far that share the base destination of record i,
\* in input order up to i
SharersUpTo(i) ==
    {j \in 1..i : BaseDest(assignSt.media[j], assignSt.divide_to_dates)
                    = BaseDest(assignSt.media[i], assignSt.divide_to_dates)}

\* the candidate paths of the base of record i: the base itself and its
\* numbered forms
CandidatesOf(i) ==
    LET m == assignSt.media[i]
    IN  {BaseDest(m, assignSt.divide_to_dates)}
        \cup {PathJoin(SubDirOf(m, assignSt.divide_to_dates),
                       Numbered(m.filename, n)) : n \in 1..MaxAssign}

\* nothing exists at the candidate paths of record i, and no record of the
\* list is named like a numbered form of its filename
Unobstructed(i) ==
    /\ CandidatesOf(i) \cap DOMAIN assignSt.files = {}
    /\ \A j \in DOMAIN assignSt.media, n \in 1..MaxAssign :
          assignSt.media[j].filename # Numbered(assignSt.media[i].filename, n)

\* the filename of record i is not itself a numbered form of the filename
\* of a record of the list
NotNumberedFormOfAnother(i) ==
    \A j \in DOMAIN assignSt.media, n \in 1..MaxAssign :
        assignSt.media[i].filename # Numbered(assignSt.media[j].filename, n)

\* the name that the k-th sharer of a base gets: filename, stem(1).ext, ..
NameInOrder(m, k) == IF k = 1 THEN m.filename ELSE Numbered(m.filename, k - 1)

\* record i has the name of its place among the sharers of its base
NumberedInOrder(i) ==
    assignSt.st.assignments[i]
        = PathJoin(SubDirOf(assignSt.media[i], assignSt.divide_to_dates),
                   NameInOrder(assignSt.media[i], Cardinality(SharersUpTo(i))))

\* C20 (as stated): when k records share a base destination, nothing exists
\* at the candidate paths and no other record's filename has the form
\* stem(N).ext, they are assigned, in input order, filename, stem(1).ext,
\* ..., stem(k-1).ext.
C20_NumberedInOrderAsStated ==
    \A i \in AssignedSoFar : Unobstructed(i) => NumberedInOrder(i)

\* C20 (amended): when k records share a base destination, nothing exists
\* at the candidate paths, no other record's filename has the form
\* stem(N).ext and their own filename is not a numbered form of another
\* record's filename, they are assigned, in input order, filename,
\* stem(1).ext, ..., stem(k-1).ext; the counter of a base never decreases
\* and no numbered candidate of a base is probed twice.
C20_CollisionNumbering ==
    /\ \A i \in AssignedSoFar :
          Unobstructed(i) /\ NotNumberedFormOfAnother(i) => NumberedInOrder(i)
    /\ ~assignSt.log.decreased
    /\ ~assignSt.log.reprobed

\* C20 witness: three records named IMG.jpg of one directory were assigned
\* IMG.jpg, IMG(1).jpg and IMG(2).jpg
C20_Witness ==
    /\ assignSt.pc = "done"
    /\ Len(assignSt.media) = 3
    /\ Unobstructed(3)
    /\ Cardinality(SharersUpTo(3)) = 3
    /\ assignSt.st.assignments[3].name = Numbered(FileName("IMG"), 2)


\* the directory that the layout gives to record m
LayoutDir(m) ==
    IF ~assignSt.divide_to_dates THEN RootDir
    ELSE IF m.date = None THEN UnknownDir
    ELSE m.date

MaxScan == 2      \* records of the year folders
MaxAlbum == 2     \* entries found in album folders

\* 32 MiB, the largest entry whose EXIF data is read (lib.rs 224)
ExifMaxSize == 33554432

\* no DateResult
NoDateResult == [some |-> FALSE, date |-> None, accuracy |-> NoAccuracy]

DateResult(date, accuracy) ==
    [some |-> TRUE, date |-> date, accuracy |-> accuracy]

\* no bytes
NoBytes == [some |-> FALSE, container |-> FALSE, fields |-> << >>]

\* the bytes of an image: whether the EXIF container can be read, and the
\* values of its date tags (None: the tag is absent, "bad": a value that is
\* not a date)
Bytes(container, fields) ==
    [some |-> TRUE, container |-> container, fields |-> fields]

\* date/exif.rs 27-41: the date that a tag's value parses to
parse_exif_datetime(val) == IF val = "bad" THEN None ELSE val

\* date/exif.rs 7-25: the first of DateTimeOriginal, DateTimeDigitized and
\* DateTime that is present and parses
extract_exif_date(bytes) ==
    IF ~bytes.container THEN None
    ELSE LET parsed == {k \in 1..Len(bytes.fields) :
                           /\ bytes.fields[k] # None
                           /\ parse_exif_datetime(bytes.fields[k]) # None}
         IN  IF parsed = {} THEN None
             ELSE parse_exif_datetime(
                      bytes.fields[CHOOSE k \in parsed :
                                       \A l \in parsed : k <= l])

\* the filename guesser: the date that the first matching pattern of the
\* basename gives
guess_date(filename) ==
    IF filename.b = "IMG_20200102_030405" THEN "2020-01-02 03:04:05" ELSE None

\* the date coordinator that skips the JSON date when EXIF bytes are given
extract_date_preferring_exif(json_date, exif_bytes, filename, allow_guess) ==
    IF exif_bytes.some /\ extract_exif_date(exif_bytes) # None
    THEN DateResult(extract_exif_date(exif_bytes), 1)
    ELSE IF json_date # None THEN DateResult(json_date, 0)
    ELSE IF allow_guess /\ guess_date(filename) # None
    THEN DateResult(guess_date(filename), 2)
    ELSE NoDateResult

\* the date coordinator: JSON (accuracy 0), then EXIF (accuracy 1), then the
\* filename guess (accuracy 2) when guessing is allowed
extract_date(json_date, exif_bytes, filename, allow_guess) ==
    IF json_date # None THEN DateResult(json_date, 0)
    ELSE IF exif_bytes.some /\ extract_exif_date(exif_bytes) # None
    THEN DateResult(extract_exif_date(exif_bytes), 1)
    ELSE IF allow_guess /\ guess_date(filename) # None
    THEN DateResult(guess_date(filename), 2)
    ELSE NoDateResult

\* media.rs 26-39: Media::new
MediaNew(zip_path, zip_index, entry_index, filename, size) ==
    [zip_path |-> zip_path, zip_index |-> zip_index,
     entry_index |-> entry_index, filename |-> filename, size |-> size,
     hash |-> None, date |-> None, date_accuracy |-> NoAccuracy,
     albums |-> << >>]

\* the entries of the year folders of the archive: one with a JSON date, one
\* with a dated name, one with EXIF data only, and a video without any date
ScanPool ==
    {MediaNew("y/sidecar.jpg", 0, 0, FileName("sidecar"), 1),
     MediaNew("y/IMG_20200102_030405.jpg", 0, 1,
              FileName("IMG_20200102_030405"), 1),
     MediaNew("y/photo.jpg", 0, 2, FileName("photo"), 1),
     MediaNew("y/clip.mp4", 0, 3, FileName("clip"), 1)}

\* zip_scan.rs 34-46: the entries of the album folders: a copy of photo.jpg,
\* a file of no year folder, and an image above the EXIF limit that shares
\* its name, not its size, with sidecar.jpg
AlbumPool ==
    {[zip_path |-> "a/photo.jpg", zip_index |-> 0, entry_index |-> 4,
      filename |-> FileName("photo"), size |-> 1],
     [zip_path |-> "a/only.jpg", zip_index |-> 0, entry_index |-> 5,
      filename |-> FileName("only"), size |-> 1],
     [zip_path |-> "a/sidecar.jpg", zip_index |-> 0, entry_index |-> 6,
      filename |-> FileName("sidecar"), size |-> ExifMaxSize + 1]}

AlbumNames == {"Trip", "Family"}

\* the JSON date index of the scan (date/json.rs 36-64)
JsonDates == [p \in {"y/sidecar.jpg"} |-> "2019-05-06 07:08:09"]

\* date/json.rs 66-120: the JSON date of an archive path
find_json_date(zip_path, json_dates) ==
    IF zip_path \in DOMAIN json_dates THEN json_dates[zip_path] ELSE None

\* the bytes of the archive's entries
EntryBytes(zip_path) ==
    IF zip_path \in {"y/photo.jpg", "a/photo.jpg"}
    THEN Bytes(TRUE, <<"bad", None, "2021-03-04 05:06:07">>)
    ELSE IF zip_path \in {"a/only.jpg", "a/sidecar.jpg",
                          "y/IMG_20200102_030405.jpg"}
    THEN Bytes(TRUE, <<"2022-04-05 06:07:08", None, None>>)
    ELSE Bytes(FALSE, << >>)

\* mime_guess: whether the name's extension is one of an image
IsImage(filename) == filename.b # "clip"

\* a pass that installs the date and leaves the accuracy alone
JsonGuessDateOnly(media, from, allow_guess) ==
    [i \in 1..Len(media) |->
        LET m == media[i]
            result == extract_date(find_json_date(m.zip_path, JsonDates),
                                   NoBytes, m.filename, allow_guess)
        IN  IF i >= from /\ result.some
            THEN [m EXCEPT !.date = result.date]
            ELSE m]

\* lib.rs 205-216, 349-356: the JSON and filename pass over the records
\* from index from on
JsonGuess(media, from, allow_guess) ==
    [i \in 1..Len(media) |->
        LET m == media[i]
            result == extract_date(find_json_date(m.zip_path, JsonDates),
                                   NoBytes, m.filename, allow_guess)
        IN  IF i >= from /\ result.some
            THEN [m EXCEPT !.date = result.date,
                           !.date_accuracy = result.accuracy]
            ELSE m]

\* lib.rs 219-230, 359-370: the records whose EXIF data is read
ExifTargets(media, from) ==
    {i \in from..Len(media) :
        /\ media[i].date = None
        /\ media[i].size <= ExifMaxSize
        /\ IsImage(media[i].filename)}

\* lib.rs 248-299, 372-455: the EXIF pass; unread are the targets whose
\* archive or entry could not be read (mergeSt.unread keeps them)
ExifInstall(media, from, unread, allow_guess) ==
    [i \in 1..Len(media) |->
        LET m == media[i]
            result == extract_date(None, EntryBytes(m.zip_path), m.filename,
                                   allow_guess)
        IN  IF i \in ExifTargets(media, from) \ unread /\ result.some
            THEN [m EXCEPT !.date = result.date,
                           !.date_accuracy = result.accuracy]
            ELSE m]

\* the lists of up to n elements of S
ListsUpTo(S, n) == UNION {[1..k -> S] : k \in 0..n}

\* zip_scan.rs 131-142: the album names of album_entries, and the entries
\* of one album in the order of the scan
AlbumsOf(scanned) == {scanned[k].album : k \in 1..Len(scanned)}

RECURSIVE EntriesOf(_, _)
EntriesOf(scanned, album) ==
    IF scanned = << >> THEN << >>
    ELSE IF scanned[1].album = album
    THEN <<scanned[1]>> \o EntriesOf(Tail(scanned), album)
    ELSE EntriesOf(Tail(scanned), album)

\* the orders in which the HashMap album_entries may be iterated
RECURSIVE Concat(_)
Concat(seqs) ==
    IF seqs = << >> THEN << >> ELSE seqs[1] \o Concat(Tail(seqs))

IterationOrders(scanned) ==
    LET names == AlbumsOf(scanned)
        n == Cardinality(names)
    IN  {Concat([k \in 1..n |-> EntriesOf(scanned, order[k])]) :
            order \in {o \in [1..n -> names] :
                          \A k, l \in 1..n : o[k] = o[l] => k = l}}

\* lib.rs 315-320: the index of the records by filename and size; a later
\* record replaces an earlier one of the same key
BuildIndex(media) ==
    [key \in {<<media[i].filename, media[i].size>> : i \in 1..Len(media)} |->
        CHOOSE i \in 1..Len(media) :
            /\ <<media[i].filename, media[i].size>> = key
            /\ \A j \in 1..Len(media) :
                  <<media[j].filename, media[j].size>> = key => j <= i]

\* a merge that adds the album without looking at the list
MergeOneWithoutContains(media, index, album_name, ae) ==
    LET key == <<ae.filename, ae.size>>
    IN  IF key \in DOMAIN index
        THEN [media |-> [media EXCEPT ![index[key]].albums =
                                          Append(@, album_name)],
              index |-> index]
        ELSE [media |-> Append(media,
                            [MediaNew(ae.zip_path, ae.zip_index,
                                      ae.entry_index, ae.filename, ae.size)
                                EXCEPT !.albums = <<album_name>>]),
              index |-> [k \in DOMAIN index \cup {key} |->
                            IF k = key THEN Len(media) + 1 ELSE index[k]]]

\* lib.rs 322-343: the merge of one album entry
MergeOne(media, index, album_name, ae) ==
    LET key == <<ae.filename, ae.size>>
    IN  IF key \in DOMAIN index
        THEN [media |-> IF album_name \in Range(media[index[key]].albums)
                        THEN media
                        ELSE [media EXCEPT ![index[key]].albums =
                                               Append(@, album_name)],
              index |-> index]
        ELSE [media |-> Append(media,
                            [MediaNew(ae.zip_path, ae.zip_index,
                                      ae.entry_index, ae.filename, ae.size)
                                EXCEPT !.albums = <<album_name>>]),
              index |-> [k \in DOMAIN index \cup {key} |->
                            IF k = key THEN Len(media) + 1 ELSE index[k]]]

NoIndex == [key \in {} |-> 0]

\* the output directory of the run
OutputDir == "out"

\* output_dir.join(..): a destination as the components of its path
InOutputDir(output_dir, dest) ==
    IF dest.dir = RootDir THEN <<output_dir, dest.name>>
    ELSE <<output_dir, dest.dir, dest.name>>

\* Path::strip_prefix(base).unwrap_or(path), then the components joined
\* by "/"
strip_prefix(path, base) ==
    IF path # << >> /\ path[1] = base THEN Tail(path) ELSE path

\* album_json.rs 8-12: AlbumFile
AlbumFile(filename, output_path) ==
    [filename |-> filename, output_path |-> output_path]

\* the files that one record adds to one album (album_json.rs 34-45)
FilesOfRecord(m, dest, output_dir, album_name) ==
    [k \in 1..Len(SelectSeq(m.albums, LAMBDA a : a = album_name)) |->
        AlbumFile(m.filename, strip_prefix(dest, output_dir))]

\* a writer that lists a record under its first album only
write_albums_json_first_album(media, assignments, output_dir) ==
    [album_name \in {media[i].albums[1] :
                        i \in {j \in 1..Len(media) : media[j].albums # << >>}} |->
        Concat([i \in 1..Len(media) |->
                   FilesOfRecord([media[i] EXCEPT
                                     !.albums = IF @ = << >> THEN @
                                                ELSE <<@[1]>>],
                                 assignments[i], output_dir, album_name)])]

\* album_json.rs 24-58: write_albums_json, the albums of the file
write_albums_json(media, assignments, output_dir) ==
    [album_name \in UNION {Range(media[i].albums) : i \in 1..Len(media)} |->
        Concat([i \in 1..Len(media) |->
                   FilesOfRecord(media[i], assignments[i], output_dir,
                                 album_name)])]

\* a result that counts every surviving record as written
ProcessResultCountingAll(before, media_len, files_skipped) ==
    [total_media        |-> before,
     duplicates_removed |-> before - media_len,
     files_written      |-> media_len,
     files_skipped      |-> files_skipped]

\* lib.rs 477 and 529-535 (172-184 at the early return): the counts of
\* the ProcessResult
ProcessResult(before, media_len, files_skipped) ==
    [total_media        |-> before,
     duplicates_removed |-> before - media_len,
     files_written      |-> media_len - files_skipped,
     files_skipped      |-> files_skipped]

\* no result yet
NoResult == ProcessResult(0, 0, 0)

\* the output directory before the run: empty, or with a file of the name
\* and size of photo.jpg
MergeFiles ==
    {<< >>, [p \in {PathJoin(RootDir, FileName("photo"))} |-> Foreign(1)]}

\* no albums.json
NoAlbumsJson == [written |-> FALSE, albums |-> [a \in {} |-> << >>]]

InitMerge ==
    /\ PipelineUnused
    /\ dedupSt = Idle /\ saveSt = Idle /\ compatSt = Idle /\ tokSt = Idle /\ stageSt = Idle /\ progSt = Idle /\ assignSt = Idle /\ yearSt = Idle /\ extractSt = Idle /\ thrSt = Idle /\ writeSt = Idle
    /\ \E media \in ListsUpTo(ScanPool, MaxScan), albums \in BOOLEAN,
          no_guess \in BOOLEAN,
          scanned \in ListsUpTo({[album |-> a, entry |-> e] :
                                    a \in AlbumNames, e \in AlbumPool},
                                MaxAlbum) :
          /\ ~albums => scanned = << >>
          /\ mergeSt = [pc |-> "scan", media_list |-> media,
                        albums |-> albums, no_guess |-> no_guess,
                        scanned |-> scanned, todo |-> << >>,
                        media_index |-> NoIndex, album_only_start |-> 0,
                        last |-> [album |-> None, matched |-> FALSE,
                                  before |-> 0],
                        assignments |-> << >>, albums_json |-> NoAlbumsJson,
                        unread |-> {}, before_dedup |-> 0, files |-> << >>,
                        skip |-> {}, extracted |-> {}, ok |-> FALSE,
                        result |-> NoResult]

\* lib.rs 168-184: the scan has returned year-folder records and album
\* entries; with no record the run returns Ok at once
ScanStage ==
    /\ mergeSt.pc = "scan"
    /\ IF mergeSt.media_list = << >>
       THEN mergeSt' = [mergeSt EXCEPT !.pc = "done", !.ok = TRUE,
                                       !.result = ProcessResult(0, 0, 0)]
       ELSE mergeSt' = [mergeSt EXCEPT !.pc = "date"]
    /\ UNCHANGED <<pipeline, dedupSt, saveSt, compatSt, tokSt, stageSt, progSt, assignSt, yearSt, extractSt, thrSt, writeSt>>

\* lib.rs 205-216: the JSON and filename pass
JsonGuessPass ==
    /\ mergeSt.pc = "date"
    /\ mergeSt' = [mergeSt EXCEPT
           !.pc = "exif",
           !.media_list = JsonGuess(@, 1, ~mergeSt.no_guess)]
    /\ UNCHANGED <<pipeline, dedupSt, saveSt, compatSt, tokSt, stageSt, progSt, assignSt, yearSt, extractSt, thrSt, writeSt>>

\* lib.rs 218-300: the EXIF pass
ExifPass ==
    /\ mergeSt.pc = "exif"
    /\ \E unread \in SUBSET ExifTargets(mergeSt.media_list, 1) :
          mergeSt' = [mergeSt EXCEPT
              !.pc = "merge",
              !.unread = unread,
              !.media_list = ExifInstall(@, 1, unread, ~mergeSt.no_guess)]
    /\ UNCHANGED <<pipeline, dedupSt, saveSt, compatSt, tokSt, stageSt, progSt, assignSt, yearSt, extractSt, thrSt, writeSt>>

\* lib.rs 312-320: the start of the album merge
MergeStart ==
    /\ mergeSt.pc = "merge"
    /\ IF mergeSt.albums /\ mergeSt.scanned # << >>
       THEN \E order \in IterationOrders(mergeSt.scanned) :
               mergeSt' = [mergeSt EXCEPT
                   !.pc = "merge_loop",
                   !.album_only_start = Len(mergeSt.media_list),
                   !.media_index = BuildIndex(mergeSt.media_list),
                   !.todo = order]
       ELSE mergeSt' = [mergeSt EXCEPT
                !.pc = "album_date",
                !.album_only_start = Len(mergeSt.media_list)]
    /\ UNCHANGED <<pipeline, dedupSt, saveSt, compatSt, tokSt, stageSt, progSt, assignSt, yearSt, extractSt, thrSt, writeSt>>

\* lib.rs 322-343: one album entry
MergeEntry ==
    /\ mergeSt.pc = "merge_loop"
    /\ mergeSt.todo # << >>
    /\ LET album_name == mergeSt.todo[1].album
           ae == mergeSt.todo[1].entry
           r == MergeOne(mergeSt.media_list, mergeSt.media_index,
                         album_name, ae)
       IN  mergeSt' = [mergeSt EXCEPT
               !.media_list = r.media,
               !.media_index = r.index,
               !.todo = Tail(@),
               !.last = [album |-> album_name,
                         matched |-> <<ae.filename, ae.size>>
                                        \in DOMAIN mergeSt.media_index,
                         before |-> Len(mergeSt.media_list)]]
    /\ UNCHANGED <<pipeline, dedupSt, saveSt, compatSt, tokSt, stageSt, progSt, assignSt, yearSt, extractSt, thrSt, writeSt>>

\* lib.rs 344-345: the end of the album merge
MergeEnd ==
    /\ mergeSt.pc = "merge_loop"
    /\ mergeSt.todo = << >>
    /\ mergeSt' = [mergeSt EXCEPT !.pc = "album_date"]
    /\ UNCHANGED <<pipeline, dedupSt, saveSt, compatSt, tokSt, stageSt, progSt, assignSt, yearSt, extractSt, thrSt, writeSt>>

\* lib.rs 347-456: the dates of the album-only records
AlbumDates ==
    /\ mergeSt.pc = "album_date"
    /\ IF mergeSt.album_only_start < Len(mergeSt.media_list)
       THEN LET from == mergeSt.album_only_start + 1
                guessed == JsonGuess(mergeSt.media_list, from,
                                     ~mergeSt.no_guess)
            IN  \E unread \in SUBSET ExifTargets(guessed, from) :
                   mergeSt' = [mergeSt EXCEPT
                       !.pc = "dedup",
                       !.unread = @ \cup unread,
                       !.media_list = ExifInstall(guessed, from, unread,
                                                  ~mergeSt.no_guess)]
       ELSE mergeSt' = [mergeSt EXCEPT !.pc = "dedup"]
    /\ UNCHANGED <<pipeline, dedupSt, saveSt, compatSt, tokSt, stageSt, progSt, assignSt, yearSt, extractSt, thrSt, writeSt>>

\* lib.rs 473: the records that deduplicate removes, any of them here
DedupStage ==
    /\ mergeSt.pc = "dedup"
    /\ \E remove \in SUBSET (1..Len(mergeSt.media_list)) :
          mergeSt' = [mergeSt EXCEPT
              !.pc = "write",
              !.before_dedup = Len(mergeSt.media_list),
              !.media_list = SwapRemoveAll(@, remove)]
    /\ UNCHANGED <<pipeline, dedupSt, saveSt, compatSt, tokSt, stageSt, progSt, assignSt, yearSt, extractSt, thrSt, writeSt>>

\* lib.rs 499-535: the write stage of a fresh run that is not forced, in
\* which every record of the work list is extracted, albums.json, and the
\* result
WriteStage ==
    /\ mergeSt.pc = "write"
    /\ \E divide_to_dates \in BOOLEAN, files \in MergeFiles :
          LET media == mergeSt.media_list
              assigned == AssignDestinations(media, << >>, files,
                                             divide_to_dates, FALSE)
              assignments == [i \in 1..Len(media) |->
                                 InOutputDir(OutputDir,
                                             assigned.assignments[i])]
              has_albums == \E i \in 1..Len(media) : media[i].albums # << >>
          IN  mergeSt' = [mergeSt EXCEPT
                  !.pc = "done",
                  !.ok = TRUE,
                  !.files = files,
                  !.skip = assigned.skip,
                  !.extracted = (1..Len(media)) \ assigned.skip,
                  !.result = ProcessResult(mergeSt.before_dedup, Len(media),
                                           Cardinality(assigned.skip)),
                  !.assignments = assignments,
                  !.albums_json =
                      IF mergeSt.albums /\ has_albums
                      THEN [written |-> TRUE,
                            albums |-> write_albums_json(media, assignments,
                                                         OutputDir)]
                      ELSE NoAlbumsJson]
    /\ UNCHANGED <<pipeline, dedupSt, saveSt, compatSt, tokSt, stageSt, progSt, assignSt, yearSt, extractSt, thrSt, writeSt>>

NextMerge ==
    ScanStage \/ JsonGuessPass \/ ExifPass \/ MergeStart \/ MergeEntry \/ MergeEnd
    \/ AlbumDates \/ DedupStage \/ WriteStage

SpecMerge == InitMerge /\ [][NextMerge]_vars

\* the album entries merged so far, up to the end of the date passes
MergedSoFar ==
    IF mergeSt.pc \in {"merge_loop", "album_date", "dedup"}
    THEN {mergeSt.scanned[k] : k \in 1..Len(mergeSt.scanned)}
         \ {mergeSt.todo[k] : k \in 1..Len(mergeSt.todo)}
    ELSE {}

\* C22: after the album merge no record lists an album name twice, and for
\* every scanned album entry there is a record of the same filename and size
\* whose album list contains the entry's album name; an entry that matches
\* leaves the number of records alone, one that does not adds exactly one
\* record.
C22_AlbumMerge ==
    /\ \A i \in 1..Len(mergeSt.media_list) :
          \A k, l \in 1..Len(mergeSt.media_list[i].albums) :
              mergeSt.media_list[i].albums[k] = mergeSt.media_list[i].albums[l]
                  => k = l
    /\ \A x \in MergedSoFar :
          \E i \in 1..Len(mergeSt.media_list) :
              /\ mergeSt.media_list[i].filename = x.entry.filename
              /\ mergeSt.media_list[i].size = x.entry.size
              /\ x.album \in Range(mergeSt.media_list[i].albums)
    /\ mergeSt.pc = "merge_loop" /\ mergeSt.last.album # None =>
          Len(mergeSt.media_list) =
              mergeSt.last.before + (IF mergeSt.last.matched THEN 0 ELSE 1)
    /\ mergeSt.pc \in {"album_date", "dedup"} /\ mergeSt.albums =>
          MergedSoFar = {mergeSt.scanned[k] : k \in 1..Len(mergeSt.scanned)}

\* C22 witness: the merge is over; the first entry made a record of its
\* own, which the second entry, of another album, joined
C22_Witness ==
    /\ mergeSt.pc = "album_date"
    /\ Len(mergeSt.scanned) = 2
    /\ \E i \in 1..Len(mergeSt.media_list) :
          /\ i > mergeSt.album_only_start
          /\ Len(mergeSt.media_list[i].albums) = 2


\* the surviving records that carry album a
Carriers(a) ==
    {i \in 1..Len(mergeSt.media_list) :
        a \in Range(mergeSt.media_list[i].albums)}

\* C23: albums.json is written exactly when album scanning is on and a
\* surviving record carries an album; it lists, under every album name,
\* exactly the surviving records that carry the album, each once, with the
\* filename and the assigned path relative to the output directory.
C23_AlbumsJson ==
    mergeSt.pc = "done" =>
        LET media == mergeSt.media_list
            json == mergeSt.albums_json
        IN  /\ json.written <=>
                  (mergeSt.albums /\ \E i \in 1..Len(media) :
                                         media[i].albums # << >>)
            /\ json.written =>
                  /\ DOMAIN json.albums =
                         UNION {Range(media[i].albums) : i \in 1..Len(media)}
                  /\ \A a \in DOMAIN json.albums :
                        /\ Len(json.albums[a]) = Cardinality(Carriers(a))
                        /\ \A i \in Carriers(a) :
                              \E k \in 1..Len(json.albums[a]) :
                                  /\ json.albums[a][k].filename =
                                         media[i].filename
                                  /\ <<OutputDir>> \o
                                         json.albums[a][k].output_path =
                                         mergeSt.assignments[i]
                                  /\ \A l \in 1..Len(json.albums[a]) :
                                        json.albums[a][l] = json.albums[a][k]
                                            => l = k

\* C23 witness: albums.json lists two albums, one of them with a record
\* that is in both, after another record was removed
C23_Witness ==
    /\ mergeSt.pc = "done"
    /\ mergeSt.albums_json.written
    /\ Cardinality(DOMAIN mergeSt.albums_json.albums) = 2
    /\ \E i \in 1..Len(mergeSt.media_list) :
          Len(mergeSt.media_list[i].albums) = 2
    /\ \E i \in 1..Len(mergeSt.media_list) :
          mergeSt.media_list[i].albums = << >>


\* ---------------------------------------------------------------------
\* folder_classify.rs: is_year_folder, alone.  A name is the sequence of its
\* parts: a prefix or suffix phrase is one part, any other character one
\* part each.
\* ---------------------------------------------------------------------

\* folder_classify.rs 4-24, the phrases in ASCII letters
YEAR_FOLDER_PREFIXES ==
    {"Photos from ", "Fotos von ", "Fotos aus ", "Photos de ", "Fotos de ",
     "Foto's uit ", "Foto dal ", "Foto del ", "Zdjecia z ", "Foto za (RU) ",
     "Fotografii za (RU) ", "Fotky z ", "Fotografii din ", "Foton fran ",
     "Bilder fra ", "Billeder fra ", "Valokuvat ", "Fenykepek - ",
     "Fotograflar "}

\* folder_classify.rs 27-33, the phrases in ASCII letters
YEAR_FOLDER_SUFFIXES ==
    {" nen no shashin (JA)", "nen no foto (JA)", "nyeon-ui sajin (KO)", "nian de zhaopian (ZH-CN)", "nian de xiangpian (ZH-TW)"}

Digits == {"0", "1", "2", "3", "4", "5", "6", "7", "8", "9"}

\* str::strip_prefix and str::strip_suffix: [some, rest]
StripPrefix(name, prefix) ==
    IF name # << >> /\ name[1] = prefix
    THEN [some |-> TRUE, rest |-> Tail(name)]
    ELSE [some |-> FALSE, rest |-> << >>]

StripSuffix(name, suffix) ==
    IF name # << >> /\ name[Len(name)] = suffix
    THEN [some |-> TRUE, rest |-> SubSeq(name, 1, Len(name) - 1)]
    ELSE [some |-> FALSE, rest |-> << >>]

\* a pattern of four digits of any century
YearReAnyCentury(rest) ==
    Len(rest) = 4 /\ \A k \in 1..4 : rest[k] \in Digits

\* folder_classify.rs 35: YEAR_RE, ^(20|19|18)\d{2}$
YearRe(rest) ==
    /\ Len(rest) = 4
    /\ <<rest[1], rest[2]>> \in {<<"2", "0">>, <<"1", "9">>, <<"1", "8">>}
    /\ rest[3] \in Digits
    /\ rest[4] \in Digits

\* folder_classify.rs 38-55
is_year_folder(name) ==
    \/ \E prefix \in YEAR_FOLDER_PREFIXES :
          StripPrefix(name, prefix).some /\ YearRe(StripPrefix(name, prefix).rest)
    \/ \E suffix \in YEAR_FOLDER_SUFFIXES :
          StripSuffix(name, suffix).some /\ YearRe(StripSuffix(name, suffix).rest)

\* the phrases that a name starts and ends with: none, the listed ones and
\* one that is not listed
NameHeads ==
    {<< >>} \cup {<<p>> : p \in YEAR_FOLDER_PREFIXES \cup {"Pictures from "}}

NameTails ==
    {<< >>} \cup {<<x>> : x \in YEAR_FOLDER_SUFFIXES \cup {" photos"}}

\* the middles of a name: four characters around the ends of the range of
\* the years, and shorter and longer runs of digits
NameMiddles ==
    {<<a, b, c, d>> : a \in {"0", "1", "2", "x"},
                      b \in {"0", "1", "7", "8", "9"},
                      c \in {"0", "9", "x"}, d \in {"0", "9", "x"}}
    \cup {<<"2", "0", "2">>, <<"2", "0", "2", "3", "0">>, << >>}

InitYear ==
    /\ PipelineUnused
    /\ dedupSt = Idle /\ saveSt = Idle /\ compatSt = Idle /\ tokSt = Idle /\ stageSt = Idle /\ progSt = Idle /\ assignSt = Idle /\ mergeSt = Idle /\ extractSt = Idle /\ thrSt = Idle /\ writeSt = Idle
    /\ \E head \in NameHeads, middle \in NameMiddles, tail \in NameTails :
          yearSt = [pc |-> "call", name |-> head \o middle \o tail,
                    result |-> FALSE]

\* a call of is_year_folder
IsYearFolder ==
    /\ yearSt.pc = "call"
    /\ yearSt' = [yearSt EXCEPT !.pc = "done",
                                !.result = is_year_folder(yearSt.name)]
    /\ UNCHANGED <<pipeline, dedupSt, saveSt, compatSt, tokSt, stageSt, progSt, assignSt, mergeSt, extractSt, thrSt, writeSt>>

NextYear == IsYearFolder

SpecYear == InitYear /\ [][NextYear]_vars

\* the value of a digit
DigitValue(c) ==
    CHOOSE v \in 0..9 :
        c = <<"0", "1", "2", "3", "4", "5", "6", "7", "8", "9">>[v + 1]

\* four digits that form a year from 1800 to 2099
IsYear(part) ==
    /\ Len(part) = 4
    /\ \A k \in 1..4 : part[k] \in Digits
    /\ LET year == 1000 * DigitValue(part[1]) + 100 * DigitValue(part[2])
                   + 10 * DigitValue(part[3]) + DigitValue(part[4])
       IN  year >= 1800 /\ year <= 2099

JsonDateInputs == {None, "2019-05-06 07:08:09", "2018-01-01 00:00:00"}

BytesInputs ==
    {NoBytes, Bytes(FALSE, << >>), Bytes(TRUE, <<None, "bad", None>>),
     Bytes(TRUE, <<"bad", None, "2021-03-04 05:06:07">>),
     Bytes(TRUE, <<"2022-04-05 06:07:08", None, "2021-03-04 05:06:07">>)}

FilenameInputs == {FileName("IMG_20200102_030405"), FileName("photo")}

InitExtract ==
    /\ PipelineUnused
    /\ dedupSt = Idle /\ saveSt = Idle /\ compatSt = Idle /\ tokSt = Idle /\ stageSt = Idle /\ progSt = Idle /\ assignSt = Idle /\ mergeSt = Idle /\ yearSt = Idle /\ thrSt = Idle /\ writeSt = Idle
    /\ \E json_date \in JsonDateInputs, exif_bytes \in BytesInputs,
          filename \in FilenameInputs, allow_guess \in BOOLEAN :
          extractSt = [pc |-> "call", json_date |-> json_date,
                       exif_bytes |-> exif_bytes, filename |-> filename,
                       allow_guess |-> allow_guess, result |-> NoDateResult]

\* a call of extract_date
ExtractDate ==
    /\ extractSt.pc = "call"
    /\ extractSt' = [extractSt EXCEPT
           !.pc = "done",
           !.result = extract_date(extractSt.json_date, extractSt.exif_bytes,
                                   extractSt.filename, extractSt.allow_guess)]
    /\ UNCHANGED <<pipeline, dedupSt, saveSt, compatSt, tokSt, stageSt, progSt, assignSt, mergeSt, yearSt, thrSt, writeSt>>

NextExtract == ExtractDate

SpecExtract == InitExtract /\ [][NextExtract]_vars

\* the EXIF date of the call's bytes, None without bytes
ExifOfCall ==
    IF extractSt.exif_bytes.some THEN extract_exif_date(extractSt.exif_bytes)
    ELSE None

DateAndAccuracyAgree ==
    \A i \in 1..Len(mergeSt.media_list) :
        LET m == mergeSt.media_list[i]
        IN  /\ m.date_accuracy < NoAccuracy <=> m.date # None
            /\ m.date # None => m.date_accuracy \in {0, 1, 2}

\* in a step that removes no record, a record's date changes exactly if its
\* accuracy does
SetTogether ==
    Len(mergeSt'.media_list) >= Len(mergeSt.media_list) =>
        \A i \in 1..Len(mergeSt.media_list) :
            mergeSt'.media_list[i].date # mergeSt.media_list[i].date
                <=> mergeSt'.media_list[i].date_accuracy
                        # mergeSt.media_list[i].date_accuracy

MaxWrites == 101      \* files of the write stage
MaxTicks == 1         \* ticks of the clock during the write stage

\* min_interval, 5 s, in ticks
IntervalTicks == 1

\* the numbers of files of the write stages
WriteTotals == {1, MIN_FILES - 1, MIN_FILES, MaxWrites}

\* writer.rs 238-242: what the worker pushes for the i-th file
WrittenRecord(i) ==
    [zip_path    |-> <<"Takeout/Google Photos/Photos from 2022/IMG.jpg", i>>,
     output_path |-> PathJoin(RootDir, Numbered(FileName("IMG"), i)),
     size        |-> 1]

InitThrottle ==
    /\ PipelineUnused
    /\ dedupSt = Idle /\ saveSt = Idle /\ compatSt = Idle /\ tokSt = Idle /\ stageSt = Idle /\ progSt = Idle /\ assignSt = Idle /\ mergeSt = Idle /\ yearSt = Idle /\ extractSt = Idle /\ writeSt = Idle
    /\ \E total \in WriteTotals, age \in {0, IntervalTicks} :
          thrSt = [pc |-> "copy", total |-> total, completed |-> 0,
                   marked |-> 0,
                   saver |-> NewSaver(NewCheckpoint(Options(FALSE, FALSE),
                                                    ArchiveFs)),
                   age |-> age, ticks |-> 0,
                   disk |-> [files |-> << >>, ckpt |-> Absent, tmp |-> Absent],
                   forced |-> FALSE]

\* writer.rs 220-246: a worker copies one file and pushes its record onto
\* written_files
CopyFile ==
    /\ thrSt.pc = "copy"
    /\ thrSt.completed < thrSt.total
    /\ thrSt' = [thrSt EXCEPT !.completed = @ + 1, !.forced = FALSE]
    /\ UNCHANGED <<pipeline, dedupSt, saveSt, compatSt, tokSt, stageSt, progSt, assignSt, mergeSt, yearSt, extractSt, writeSt>>

\* writer.rs 228-230, 252-256: a worker fails, write_output returns the
\* error when the scope is joined
CopyFail ==
    /\ thrSt.pc = "copy"
    /\ thrSt.completed < thrSt.total
    /\ thrSt' = [thrSt EXCEPT !.pc = "failed", !.forced = FALSE]
    /\ UNCHANGED <<pipeline, dedupSt, saveSt, compatSt, tokSt, stageSt, progSt, assignSt, mergeSt, yearSt, extractSt, writeSt>>

\* writer.rs 252-256: every scope is joined
CopyJoin ==
    /\ thrSt.pc = "copy"
    /\ thrSt.completed = thrSt.total
    /\ thrSt' = [thrSt EXCEPT !.pc = "mark", !.forced = FALSE]
    /\ UNCHANGED <<pipeline, dedupSt, saveSt, compatSt, tokSt, stageSt, progSt, assignSt, mergeSt, yearSt, extractSt, writeSt>>

\* writer.rs 260-265: one call of saver.mark_written
MarkOne ==
    /\ thrSt.pc = "mark"
    /\ thrSt.marked < thrSt.completed
    /\ \E fault \in PipelineFaults :
          LET elapsed == thrSt.age >= IntervalTicks
              r == mark_written(thrSt.saver, thrSt.disk,
                                WrittenRecord(thrSt.marked + 1), elapsed, fault)
              saved == elapsed \/ thrSt.saver.files_since_save + 1 >= MIN_FILES
          IN  /\ saved \/ fault = "none"
              /\ thrSt' = [thrSt EXCEPT
                     !.marked = @ + 1,
                     !.saver = r.saver,
                     !.disk = r.disk,
                     !.age = IF saved THEN 0 ELSE @,
                     !.forced = saved]
    /\ UNCHANGED <<pipeline, dedupSt, saveSt, compatSt, tokSt, stageSt, progSt, assignSt, mergeSt, yearSt, extractSt, writeSt>>

\* writer.rs 260-270: all records are marked
MarkEnd ==
    /\ thrSt.pc = "mark"
    /\ thrSt.marked = thrSt.completed
    /\ thrSt' = [thrSt EXCEPT !.pc = "done", !.forced = FALSE]
    /\ UNCHANGED <<pipeline, dedupSt, saveSt, compatSt, tokSt, stageSt, progSt, assignSt, mergeSt, yearSt, extractSt, writeSt>>

\* min_interval passes
ClockTick ==
    /\ thrSt.pc \in {"copy", "mark"}
    /\ thrSt.ticks < MaxTicks
    /\ thrSt' = [thrSt EXCEPT !.ticks = @ + 1,
                              !.age = Min(@ + 1, IntervalTicks),
                              !.forced = FALSE]
    /\ UNCHANGED <<pipeline, dedupSt, saveSt, compatSt, tokSt, stageSt, progSt, assignSt, mergeSt, yearSt, extractSt, writeSt>>

NextThrottle ==
    CopyFile \/ CopyFail \/ CopyJoin \/ MarkOne \/ MarkEnd \/ ClockTick

SpecThrottle == InitThrottle /\ [][NextThrottle]_vars

\* the number of written files in the checkpoint on disk
OnDiskCount ==
    IF Load(thrSt.disk).ok /\ Load(thrSt.disk).some
    THEN Len(Load(thrSt.disk).cp.written_files)
    ELSE 0

\* C27: while files are being written, the checkpoint on disk never lags
\* the completed writes by MIN_FILES files or more.
C27_DiskNeverLags ==
    thrSt.pc \in {"copy", "mark"} => thrSt.completed - OnDiskCount < MIN_FILES

\* C27, the part on force_save: a save that the throttle lets through
\* resets the file count and the timer, whatever the save returns
C27_ForceSaveResets ==
    thrSt.pc = "mark" /\ thrSt.forced =>
        thrSt.saver.files_since_save = 0 /\ thrSt.age = 0


\* ---------------------------------------------------------------------
\* The pipeline: a run that does not resume
\* ---------------------------------------------------------------------

\* the checkpoint that the run found in the output directory
FoundCheckpoint == Load([files |-> << >>, ckpt |-> hist.found, tmp |-> Absent])

\* the run is past its start, and resume was not requested, or no checkpoint
\* was there, or the one that was there is not compatible
StartsFresh ==
    /\ run.pc # "start"
    /\ ~(run.pc = "done" /\ run.at \in {"entry", "load"})
    /\ \/ ~run.resume
       \/ (FoundCheckpoint.ok /\ ~FoundCheckpoint.some)
       \/ /\ FoundCheckpoint.ok /\ FoundCheckpoint.some
          /\ is_compatible(FoundCheckpoint.cp, run.options, ArchiveFs) = "false"

\* the records that this run has marked
MarkedByThisRun == SubSeq(wr.written_files, 1, wr.marked)

\* C28: a run that finds an incompatible checkpoint, or is not asked to
\* resume, or finds no checkpoint, starts from a fresh checkpoint with an
\* empty written-file list: no record is skipped on account of the old
\* checkpoint (a skipped record has its file, of its size, in the output
\* directory), and the checkpoint of the run, in memory and once saved on
\* disk, holds the records of the files this run wrote and no other.
C28_FreshStartIgnoresOldCheckpoint ==
    StartsFresh =>
        /\ ~hist.loaded.resumed
        /\ hist.loaded.written = << >>
        /\ saver.checkpoint.written_files = MarkedByThisRun
        /\ \A i \in wr.skip :
              /\ wr.assignments[i] \in DOMAIN disk.files
              /\ disk.files[wr.assignments[i]].size = Media[i].size
        /\ disk.ckpt # hist.found /\ Load(disk).ok /\ Load(disk).some =>
              \E k \in 0..wr.marked :
                  Load(disk).cp.written_files = SubSeq(wr.written_files, 1, k)

\* C28 witness: the second run was asked to resume, found the checkpoint of
\* the first run with a record in it, which is not compatible with its
\* options, and has saved a checkpoint with a record of its own
C28_Witness ==
    /\ StartsFresh
    /\ run.n = 2
    /\ run.resume
    /\ FoundCheckpoint.some
    /\ FoundCheckpoint.cp.written_files # << >>
    /\ FoundCheckpoint.cp.zip_files = run.options.zip_files
    /\ wr.marked > 0
    /\ disk.ckpt # hist.found
    /\ Load(disk).ok /\ Load(disk).some
    /\ Load(disk).cp.written_files # << >>


\* ---------------------------------------------------------------------
\* The stages with worker threads: who writes the media vector
\* ---------------------------------------------------------------------

\* no thread of the stage is running
AllJoined == \A t \in 1..NumThreads : stageSt.w[t].pc = "done"

\* the media vector is written only in a step taken with every thread of
\* the stage ended
InstalledAfterJoin ==
    stageSt'.installed # stageSt.installed => AllJoined

\* C29: worker threads never write to the shared media vector: the results
\* of the threads of the EXIF and dedup stages are installed by the driver
\* after all threads of the scope have been joined, and no thread of one
\* stage is still running when the next stage starts.
C29_WorkersNeverWriteMedia ==
    /\ [][InstalledAfterJoin]_vars
    /\ [](stageSt.pc \in {"check", "done"} => AllJoined)
    /\ [](\A s \in DOMAIN WorkerStages :
             stageSt.installed[s] => s < stageSt.stage)

\* C29 witness: the dedup stage is running with a thread in an entry, the
\* results of both EXIF stages installed, its own not
C29_Witness ==
    /\ stageSt.pc = "run"
    /\ WorkerStages[stageSt.stage] = "dedup"
    /\ \E t \in 1..NumThreads : stageSt.w[t].pc = "unit"
    /\ stageSt.installed[1] /\ stageSt.installed[2]
    /\ ~stageSt.installed[stageSt.stage]


\* ---------------------------------------------------------------------
\* deduplicate: what is removed, what is skipped
\* ---------------------------------------------------------------------

\* the input records that were to be hashed and could not be
Unhashed == needs_hash(dedupSt.input) \ Hashed

\* C30: deduplicate removes a record only if it was hashed and shares size
\* and hash with a record that is retained: a record whose size is unique,
\* or whose hash could not be computed, is never removed; the entries that
\* could not be hashed are counted in a warning of the result; the
\* remaining records are the input records that were not removed, each
\* once.
C30_RemovesOnlyHashedDuplicates ==
    dedupSt.pc = "done" =>
        /\ \A i \in DOMAIN dedupSt.input :
              /\ Remains(i) <= 1
              /\ Remains(i) = 0 =>
                    /\ i \in Hashed
                    /\ \E k \in GroupOf(i) \ {i} : Remains(k) = 1
              /\ i \notin needs_hash(dedupSt.input) => Remains(i) = 1
              /\ i \notin Hashed => Remains(i) = 1
        /\ \A k \in DOMAIN dedupSt.result.media :
              /\ dedupSt.result.media[k].id \in DOMAIN dedupSt.input
              /\ dedupSt.result.media[k] =
                     dedupSt.hashed[dedupSt.result.media[k].id]
        /\ dedupSt.result.warnings = << >> <=> Unhashed = {}
        /\ Unhashed # {} =>
              /\ Len(dedupSt.result.warnings) = 1
              /\ dedupSt.result.warnings[1].count = Cardinality(Unhashed)

\* C30 witness: of three records of one content, one could not be hashed
\* and is retained with one of the other two, the third is removed, and
\* the warning counts one entry
C30_Witness ==
    /\ dedupSt.pc = "done"
    /\ Len(dedupSt.input) = 3
    /\ \A i, j \in DOMAIN dedupSt.input :
          dedupSt.input[i].content = dedupSt.input[j].content
    /\ Cardinality(Unhashed) = 1
    /\ \A i \in Unhashed : Remains(i) = 1
    /\ Len(dedupSt.result.media) = 2
    /\ dedupSt.result.warnings # << >>


------------------------------------------------------------------------------
(***************************************************************************)
(* The write stage of the pipeline under force.                            *)
(***************************************************************************)

\* the assignment of a run that consults neither the output directory nor a
\* checkpoint
ForcedAssignments ==
    AssignDestinations(Media, << >>, << >>, run.options.divide_to_dates,
                       TRUE).assignments

\* C31: with force set every media record is extracted and written: no
\* record is skipped (files_skipped = 0), the assigned names do not depend
\* on the contents of the output directory, and a run that ends Ok has
\* extracted every record.
C31_ForceWritesEverything ==
    (run.options.force /\ Assigned) =>
        /\ wr.skip = {}
        /\ wr.assignments = ForcedAssignments
        /\ (run.result = "Ok" /\ run.at = "end") =>
               hist.extracted = DOMAIN Media


\* the write stage has assigned and no thread of this run has copied yet:
\* the output directory is as it was when the run started
BeforeFirstCopy == run.pc = "group" /\ hist.extracted = {}

\* C32: unless force is set, no media is written to a path at which a file
\* of a different size existed before the run started, on fresh runs and on
\* runs resumed from a checkpoint alike: every record that is to be written
\* has a path that holds no file, or (the base path of a first claimant)
\* one of its own size.
C32_NoOverwriteOfDifferentSize ==
    (~run.options.force /\ BeforeFirstCopy) =>
        \A i \in DOMAIN Media :
            LET dest == wr.assignments[i]
            IN  /\ (i \notin wr.skip /\ dest \in DOMAIN disk.files) =>
                       disk.files[dest].size = Media[i].size
                /\ (i \notin wr.skip /\ dest.name # Media[i].filename) =>
                       dest \notin DOMAIN disk.files


\* ---------------------------------------------------------------------
\* The date of a record after the date stages
\* ---------------------------------------------------------------------

\* the EXIF date that record i of the list yields: of an image of at most
\* 32 MiB whose entry could be read
ExifYield(i) ==
    LET m == mergeSt.media_list[i]
    IN  IF IsImage(m.filename) /\ m.size <= ExifMaxSize
           /\ i \notin mergeSt.unread
        THEN extract_exif_date(EntryBytes(m.zip_path))
        ELSE None

\* the filename date that record i yields, if guessing is on
GuessYield(i) ==
    IF mergeSt.no_guess THEN None
    ELSE guess_date(mergeSt.media_list[i].filename)

\* the date and accuracy of the highest-priority source of record i
BestSource(i) ==
    LET m == mergeSt.media_list[i]
        json_date == find_json_date(m.zip_path, JsonDates)
    IN  IF json_date # None THEN DateResult(json_date, 0)
        ELSE IF ExifYield(i) # None THEN DateResult(ExifYield(i), 1)
        ELSE IF GuessYield(i) # None THEN DateResult(GuessYield(i), 2)
        ELSE NoDateResult

\* C33: after the date stages each record's date comes from the
\* highest-priority source that yields a date for it: the JSON sidecar,
\* else EXIF (images of at most 32 MiB), else the filename guess; a record
\* without sidecar for which EXIF and the filename both yield a date has
\* the EXIF date and accuracy 1.
C33_DateFromBestSource ==
    mergeSt.pc \in {"merge", "dedup"} =>
        \A i \in 1..Len(mergeSt.media_list) :
            /\ mergeSt.media_list[i].date = BestSource(i).date
            /\ mergeSt.media_list[i].date_accuracy = BestSource(i).accuracy


\* ---------------------------------------------------------------------
\* deduplicate and the albums of the records
\* ---------------------------------------------------------------------

\* the retained record of the (size, hash) group of the hashed record i
RetainedOf(i) ==
    {k \in DOMAIN dedupSt.result.media :
        dedupSt.result.media[k].id \in GroupOf(i)}

\* C34: deduplication does not lose album membership: every album name
\* carried by a record that is removed as a duplicate is carried, after
\* dedup, by the retained record of its (size, hash) group.
C34_AlbumsSurviveDedup ==
    dedupSt.pc = "done" =>
        \A i \in Hashed :
            Remains(i) = 0 =>
                \A a \in Range(dedupSt.input[i].albums) :
                    \E k \in RetainedOf(i) :
                        a \in Range(dedupSt.result.media[k].albums)


\* ---------------------------------------------------------------------
\* The entries of the album folders that lie in no year folder
\* ---------------------------------------------------------------------

\* the album merge of the run has taken an entry
MergeRan == mergeSt.last.album # None

\* C35: with album scanning on, every media entry of an album folder that
\* lies in no year folder is a media record after the album merge, with its
\* album, and goes on to the date, dedup and write stages; also when the
\* archives hold no media in any year folder: a run that has ended has
\* merged its album entries.
C35_AlbumOnlyEntriesBecomeRecords ==
    /\ mergeSt.pc = "dedup" =>
          \A k \in 1..Len(mergeSt.scanned) :
              \E i \in 1..Len(mergeSt.media_list) :
                  /\ mergeSt.media_list[i].filename =
                         mergeSt.scanned[k].entry.filename
                  /\ mergeSt.media_list[i].size =
                         mergeSt.scanned[k].entry.size
                  /\ mergeSt.scanned[k].album
                         \in Range(mergeSt.media_list[i].albums)
    /\ (mergeSt.pc = "done" /\ mergeSt.albums /\ mergeSt.scanned # << >>) =>
          MergeRan



------------------------------------------------------------------------------
(***************************************************************************)
(* writer.rs 166-282: phase 2 and the end of write_output, alone: the      *)
(* archives one after another, the threads of an archive's scope entry by  *)
(* entry, with or without a checkpoint saver and a cancellation token.     *)
(* The output file of an entry is written through a BufWriter that is      *)
(* dropped at the end of the loop body: what io::copy left in its buffer   *)
(* reaches the file then, and an error of that write is discarded.         *)
(***************************************************************************)
MaxWork == 3      \* media records given to write_output

\* the i-th record of the list, of archive z
WriteRecord(i, z) ==
    [zip_path |-> <<"Photos from 2022", i>>, zip_index |-> z,
     filename |-> FileName("IMG"), size |-> 1, date |-> None]

\* the file at the destination of record m: whole, or without its last bytes
FileOf(m, whole) ==
    [size |-> IF whole THEN m.size ELSE 0,
     src |-> <<m.zip_index, m.zip_path>>, whole |-> whole]

InitWrite ==
    /\ PipelineUnused
    /\ dedupSt = Idle /\ saveSt = Idle /\ compatSt = Idle /\ tokSt = Idle /\ stageSt = Idle /\ progSt = Idle /\ assignSt = Idle /\ mergeSt = Idle /\ yearSt = Idle /\ extractSt = Idle /\ thrSt = Idle
    /\ \E n \in 0..MaxWork :
       \E zs \in [1..n -> {0, 1}],
          files \in {<< >>, [p \in {PathJoin(RootDir, FileName("IMG"))} |->
                                Foreign(1)]},
          has_saver \in BOOLEAN, has_token \in BOOLEAN, album \in BOOLEAN :
          LET media == [i \in 1..n |-> WriteRecord(i, zs[i])]
              a == AssignDestinations(media, << >>, files, FALSE, FALSE)
          IN  writeSt = [pc |-> "group", media |-> media,
                         assignments |-> a.assignments, skip |-> a.skip,
                         has_saver |-> has_saver, has_token |-> has_token,
                         album |-> album,
                         todo |-> {media[i].zip_index :
                                      i \in (1..n) \ a.skip},
                         workers |-> << >>, files |-> files,
                         written_files |-> << >>, extracted |-> << >>,
                         token |-> FALSE, cancelled |-> FALSE,
                         checkpoint |-> << >>, saved |-> FALSE,
                         album_run |-> FALSE, result |-> "none"]

\* writer.rs 191-203: the next archive: the check, then the chunks and the
\* threads of the scope
WriteGroup ==
    /\ writeSt.pc = "group"
    /\ IF writeSt.todo = {}
       THEN writeSt' = [writeSt EXCEPT !.pc = "after"]
       ELSE IF writeSt.has_token /\ writeSt.token
       THEN writeSt' = [writeSt EXCEPT !.cancelled = TRUE, !.pc = "after"]
       ELSE \E z \in writeSt.todo :
               LET chunks == ChunksOf(WorkOf(writeSt.media, writeSt.skip, z))
               IN  writeSt' = [writeSt EXCEPT
                       !.pc = "join",
                       !.todo = @ \ {z},
                       !.workers = [k \in DOMAIN chunks |-> Worker(chunks[k])]]
    /\ UNCHANGED <<pipeline, dedupSt, saveSt, compatSt, tokSt, stageSt, progSt, assignSt, mergeSt, yearSt, extractSt, thrSt>>

\* writer.rs 215-216: the thread opens the archive
WriteOpen(w) ==
    /\ writeSt.pc = "join"
    /\ w \in DOMAIN writeSt.workers
    /\ writeSt.workers[w].st = "open"
    /\ \/ writeSt' = [writeSt EXCEPT !.workers[w].st = "check"]
       \/ writeSt' = [writeSt EXCEPT !.workers[w].st = "err"]
    /\ UNCHANGED <<pipeline, dedupSt, saveSt, compatSt, tokSt, stageSt, progSt, assignSt, mergeSt, yearSt, extractSt, thrSt>>

\* writer.rs 219-225: the check before an entry
WriteCheck(w) ==
    /\ writeSt.pc = "join"
    /\ w \in DOMAIN writeSt.workers
    /\ writeSt.workers[w].st = "check"
    /\ IF writeSt.has_token /\ writeSt.token
       THEN writeSt' = [writeSt EXCEPT !.cancelled = TRUE,
                                       !.workers[w].st = "done"]
       ELSE writeSt' = [writeSt EXCEPT !.workers[w].st = "copy"]
    /\ UNCHANGED <<pipeline, dedupSt, saveSt, compatSt, tokSt, stageSt, progSt, assignSt, mergeSt, yearSt, extractSt, thrSt>>

\* writer.rs 227-243: the entry is opened, the output file created, the
\* bytes copied, the record pushed onto the collector
WriteCopy(w) ==
    /\ writeSt.pc = "join"
    /\ w \in DOMAIN writeSt.workers
    /\ writeSt.workers[w].st = "copy"
    /\ LET i    == writeSt.workers[w].chunk[writeSt.workers[w].pos]
           m    == writeSt.media[i]
           dest == writeSt.assignments[i]
       IN  \/ \* archive.by_index or File::create fails
              writeSt' = [writeSt EXCEPT !.workers[w].st = "entry_err"]
           \/ \* io::copy fails
              writeSt' = [writeSt EXCEPT
                  !.workers[w].st = "entry_err",
                  !.files = PutFile(@, dest, FileOf(m, FALSE))]
           \/ \* io::copy returns
              writeSt' = [writeSt EXCEPT
                  !.workers[w].st = "drop",
                  !.files = PutFile(@, dest, FileOf(m, FALSE)),
                  !.extracted = Append(@, [i |-> i, w |-> w,
                                           z |-> m.zip_index]),
                  !.written_files =
                      Append(@, [zip_path |-> m.zip_path,
                                 output_path |-> dest, size |-> m.size])]
    /\ UNCHANGED <<pipeline, dedupSt, saveSt, compatSt, tokSt, stageSt, progSt, assignSt, mergeSt, yearSt, extractSt, thrSt>>

\* writer.rs 245-247: the progress report and the end of the loop body,
\* where out_file is dropped: the buffer is written, or the write fails
\* and nobody is told
WriteDrop(w) ==
    /\ writeSt.pc = "join"
    /\ w \in DOMAIN writeSt.workers
    /\ writeSt.workers[w].st = "drop"
    /\ LET i    == writeSt.workers[w].chunk[writeSt.workers[w].pos]
           m    == writeSt.media[i]
           dest == writeSt.assignments[i]
       IN  \/ writeSt' = [writeSt EXCEPT
                  !.workers[w] = Advance(@),
                  !.files = PutFile(@, dest, FileOf(m, TRUE))]
           \/ writeSt' = [writeSt EXCEPT !.workers[w] = Advance(@)]
    /\ UNCHANGED <<pipeline, dedupSt, saveSt, compatSt, tokSt, stageSt, progSt, assignSt, mergeSt, yearSt, extractSt, thrSt>>

\* writer.rs 253-257: the scope is joined; the error of a thread is
\* returned by write_output
WriteJoin ==
    /\ writeSt.pc = "join"
    /\ \A w \in DOMAIN writeSt.workers :
          writeSt.workers[w].st \in {"done", "err", "entry_err"}
    /\ IF \E w \in DOMAIN writeSt.workers :
             writeSt.workers[w].st \in {"err", "entry_err"}
       THEN writeSt' = [writeSt EXCEPT !.pc = "done", !.result = "Err"]
       ELSE writeSt' = [writeSt EXCEPT !.pc = "group"]
    /\ UNCHANGED <<pipeline, dedupSt, saveSt, compatSt, tokSt, stageSt, progSt, assignSt, mergeSt, yearSt, extractSt, thrSt>>

\* writer.rs 260-282: with a saver the records are marked and, if
\* cancellation was observed, saved and CancelledError returned; then the
\* album output, which may fail, and Ok
WriteReturn ==
    /\ writeSt.pc = "after"
    /\ IF writeSt.has_saver /\ writeSt.cancelled
       THEN writeSt' = [writeSt EXCEPT
                !.pc = "done", !.result = "Cancelled", !.saved = TRUE,
                !.checkpoint = writeSt.written_files]
       ELSE \E album_ok \in BOOLEAN :
               writeSt' = [writeSt EXCEPT
                   !.pc = "done",
                   !.checkpoint = IF writeSt.has_saver
                                  THEN writeSt.written_files ELSE @,
                   !.album_run = writeSt.album,
                   !.result = IF writeSt.album /\ ~album_ok
                              THEN "Err" ELSE "Ok"]
    /\ UNCHANGED <<pipeline, dedupSt, saveSt, compatSt, tokSt, stageSt, progSt, assignSt, mergeSt, yearSt, extractSt, thrSt>>

\* CancellationToken::cancel by the holder of the token
WriteCancel ==
    /\ writeSt.pc \in {"group", "join"}
    /\ writeSt.has_token /\ ~writeSt.token
    /\ writeSt' = [writeSt EXCEPT !.token = TRUE]
    /\ UNCHANGED <<pipeline, dedupSt, saveSt, compatSt, tokSt, stageSt, progSt, assignSt, mergeSt, yearSt, extractSt, thrSt>>

NextWrite ==
    \/ WriteGroup
    \/ \E w \in 1..NumThreads :
          WriteOpen(w) \/ WriteCheck(w) \/ WriteCopy(w) \/ WriteDrop(w)
    \/ WriteJoin \/ WriteReturn \/ WriteCancel

SpecWrite == InitWrite /\ [][NextWrite]_vars


\* ---------------------------------------------------------------------
\* The threads of the write stage
\* ---------------------------------------------------------------------

\* the records of the chunk of thread w
ChunkOf(w) == Range(writeSt.workers[w].chunk)

\* the records that are to be written
ToWrite == DOMAIN writeSt.media \ writeSt.skip

\* the copies of record i that have completed
CopiesOf(i) ==
    {k \in DOMAIN writeSt.extracted : writeSt.extracted[k].i = i}

\* the chunks of the threads of a scope partition the work of one archive,
\* and no two chunks hold the same destination
ChunksPartition ==
    /\ \A v, w \in DOMAIN writeSt.workers :
          v # w => /\ ChunkOf(v) \cap ChunkOf(w) = {}
                   /\ {writeSt.assignments[i] : i \in ChunkOf(v)}
                          \cap {writeSt.assignments[i] : i \in ChunkOf(w)} = {}
    /\ \A w \in DOMAIN writeSt.workers :
          /\ ChunkOf(w) # {}
          /\ Len(writeSt.workers[w].chunk) = Cardinality(ChunkOf(w))
          /\ UNION {ChunkOf(v) : v \in DOMAIN writeSt.workers} =
                 {i \in ToWrite :
                     \A j \in ChunkOf(w) :
                         writeSt.media[i].zip_index =
                             writeSt.media[j].zip_index}

\* C36: in a write stage that ends without cancellation or error every
\* record that is not skipped is extracted exactly once, by one thread (the
\* chunks of an archive's work list partition it), and no two threads
\* write to the same destination, under every interleaving.
C36_ExtractedOnceByOneWorker ==
    /\ writeSt.pc = "join" => ChunksPartition
    /\ \A k, l \in DOMAIN writeSt.extracted :
          k # l => writeSt.assignments[writeSt.extracted[k].i]
                       # writeSt.assignments[writeSt.extracted[l].i]
    /\ (writeSt.result = "Ok" /\ ~writeSt.cancelled) =>
          \A i \in DOMAIN writeSt.media :
              Cardinality(CopiesOf(i)) = IF i \in writeSt.skip THEN 0 ELSE 1

\* C36: a write stage has ended Ok in which one thread extracted two
\* records of an archive and another thread the third, and both were at
\* work at one time
C36_Witness ==
    /\ writeSt.result = "Ok" /\ ~writeSt.cancelled
    /\ Len(writeSt.extracted) = 3
    /\ writeSt.extracted[1].w # writeSt.extracted[2].w
    /\ writeSt.extracted[3].w = writeSt.extracted[1].w
    /\ \A k \in 1..3 : writeSt.extracted[k].z = writeSt.extracted[1].z


\* ---------------------------------------------------------------------
\* The records of the collector and of the checkpoint
\* ---------------------------------------------------------------------

\* the file at the output path of a written-file record is there, whole,
\* and is the record's entry
CopyCompleted(wf) ==
    /\ wf.output_path \in DOMAIN writeSt.files
    /\ writeSt.files[wf.output_path].whole
    /\ writeSt.files[wf.output_path].src[2] = wf.zip_path
    /\ writeSt.files[wf.output_path].size = wf.size

\* C37: every WrittenFile record of a saved checkpoint refers to an entry
\* whose copy to its output path completed: a file that is missing or
\* partially written when the stage is cancelled or fails is never
\* recorded as written, and no output path is recorded twice.
C37_RecordedMeansCopied ==
    (writeSt.pc = "done" /\ writeSt.saved) =>
        /\ \A k \in DOMAIN writeSt.checkpoint :
              CopyCompleted(writeSt.checkpoint[k])
        /\ \A k, l \in DOMAIN writeSt.checkpoint :
              k # l => writeSt.checkpoint[k].output_path
                           # writeSt.checkpoint[l].output_path


\* ---------------------------------------------------------------------
\* The counts of the result
\* ---------------------------------------------------------------------

\* the records of the final list whose destination held, before the run, a
\* file of their size
SameSizeExisting ==
    {i \in 1..Len(mergeSt.media_list) :
        \E p \in DOMAIN mergeSt.files :
            /\ InOutputDir(OutputDir, p) = mergeSt.assignments[i]
            /\ mergeSt.files[p].size = mergeSt.media_list[i].size}

-------------------------------------------------------------------------------
\* the names that are taken for the search in progress
TakenNames == stageSt.search.used \cup stageSt.search.existing

\* C39: the search for a free numbered name, in the main output and in an
\* album folder, ends after finitely many increments of the counter, at most
\* one more than the number of used paths and existing files; a run that is
\* never cancelled and not paused for ever returns, with Ok.
C39_SearchesEndAndRunReturns ==
    /\ [](stageSt.search.counter <= Cardinality(TakenNames) + 1)
    /\ (stageSt.pc = "assign") ~> (stageSt.pc # "assign")
    /\ (stageSt.pc = "album") ~> (stageSt.pc = "done")
    /\ ([](~stageSt.cancelled) /\ <>[](~stageSt.paused))
          => <>(stageSt.pc = "done" /\ stageSt.result = "Ok")

\* C39 witness: in a run that was never cancelled, whose search in the main
\* output has ended, the search in the album folder has gone past every taken
\* name and is about to end
C39_Witness ==
    /\ stageSt.pc = "album"
    /\ ~stageSt.cancelled
    /\ Cardinality(TakenNames) = MaxTaken
    /\ stageSt.search.counter = MaxTaken + 1


-------------------------------------------------------------------------------
\* the records for which the threads pushed a WrittenFile
PushedRecords ==
    {i \in DOMAIN writeSt.media :
        \E k \in DOMAIN writeSt.written_files :
            writeSt.written_files[k].output_path = writeSt.assignments[i]}

\* C40: when the write stage observed the cancel, write_output returns
\* CancelledError, without the album output and without Ok, with or without
\* a checkpoint saver; it returns Ok only when every assignment that is not
\* skipped was written.
C40_CancelReturnsCancelled ==
    writeSt.pc = "done" =>
        /\ writeSt.cancelled =>
              writeSt.result = "Cancelled" /\ ~writeSt.album_run
        /\ writeSt.result = "Ok" => ToWrite \subseteq PushedRecords

====
